---- MODULE Spec2Model ----
(***************************************************************************)
(* spotim8: incremental library sync (spotim8/client.py), add-only         *)
(* playlist write-back (scripts/automation/playlist_update.py,             *)
(* scripts/spotify_sync.py) and the checkpointed liked-songs fetch         *)
(* (scripts/spotify_sync.py).                                              *)
(*                                                                         *)
(* Three specifications share the module, one per component; each leaves   *)
(* the variables of the other components at their initial values:          *)
(*   SpecSync    Spotim8.sync against a remote library that is edited      *)
(*   SpecUpdate  the playlist update functions against remote playlists    *)
(*   SpecLiked   sync_liked_songs with interruption and restart            *)
(***************************************************************************)
EXTENDS Integers, Sequences, FiniteSets, TLC

(***************************************************************************)
(* Bounds of the model.                                                    *)
(***************************************************************************)
MaxSyncs == 2        \* Spotim8.sync calls per behaviour
MaxEdits == 2        \* remote edits per behaviour

(***************************************************************************)
(* Generic helpers on sequences.                                           *)
(***************************************************************************)
Range(s) == {s[i] : i \in 1..Len(s)}

RECURSIVE Filter(_, _)
\* [x for x in s if x in keep]
Filter(s, keep) ==
    IF s = <<>> THEN <<>>
    ELSE IF Head(s) \in keep THEN <<Head(s)>> \o Filter(Tail(s), keep)
         ELSE Filter(Tail(s), keep)

RemoveAt(s, i) == SubSeq(s, 1, i - 1) \o SubSeq(s, i + 1, Len(s))

(***************************************************************************)
(* The remote library seen by Spotim8.                                     *)
(***************************************************************************)
Tracks == {"t1", "t2"}
LIKED_SONGS_PLAYLIST_ID == "__liked_songs__"
RegularIds == {"A", "B"}
AllIds == RegularIds \cup {LIKED_SONGS_PLAYLIST_ID}
\* order in which current_user_playlists lists the playlists
ListingOrder == <<"B", "A">>
\* owner.get("id") == me: A is the user's own playlist, B is a followed one
IsOwned(pid) == pid \in {"A", LIKED_SONGS_PLAYLIST_ID}

\* a persisted table: catalog.load(key) returns None when the file is absent
NoTable == [exists |-> FALSE, rows |-> <<>>]
Table(rws) == [exists |-> TRUE, rows |-> rws]
NoMap == [k \in {} |-> 0]     \* an empty dict
None == <<"None", 0>>         \* what dict.get returns for a missing key

VARIABLES
    rItems,        \* remote: id -> sequence of track ids
    rSnap,         \* remote: regular id -> snapshot counter
    rExists,       \* remote: regular id -> still listed
    edits,         \* remote edits so far
    pt,            \* persisted playlist_tracks table, or NoTable
    derived,       \* persisted/memoized tables derived from playlist_tracks
    meta,          \* persisted metadata record
    syncs,         \* sync calls so far (the clock of last_sync_utc)
    pc,            \* position of the running sync
    force, owned_only, include_liked_songs,   \* arguments of the running sync
    metaLocal,     \* sync's local `meta`, as loaded at line 171
    new_snapshots, \* sync's local new_snapshots
    changed,       \* sync's local list `changed` as first computed
    todo,          \* the part of `changed` still to fetch
    ptLocal,       \* sync's local `pt` (the kept rows)
    rows,          \* sync's local `rows`
    fetchCalls,    \* ids whose items were requested in this run, in call order
    ptAtStart,     \* the persisted playlist_tracks when the run started
    likedOffsets,  \* offsets this run requested from current_user_saved_tracks
    interruptedAfter,  \* pages of Liked Songs fetched by a run that then raised
    resumeExpected,    \* interruptedAfter of the run before this one
    memo,          \* catalog._memo: keys of the tables held in memory
    playlistsTable \* the playlists table is persisted

syncVars == <<rItems, rSnap, rExists, edits, pt, derived, meta, syncs, pc, force,
              owned_only, include_liked_songs, metaLocal, new_snapshots, changed,
              todo, ptLocal, rows, fetchCalls, ptAtStart, likedOffsets,
              interruptedAfter, resumeExpected, memo, playlistsTable>>

VARIABLES
    remote,        \* remote playlists of the write-back: id -> sequence of URIs
    playlist_tracks_cache,   \* _playlist_tracks_cache: id -> cached set of URIs
    upc,           \* position of the running update call
    ukind,         \* which update function runs
    upid,          \* the existing playlist it updates (pid)
    track_uris,    \* the desired list (track_uris / genre_uris / uris)
    already,       \* the set returned by get_playlist_tracks
    to_add,        \* the part of to_add not yet sent
    added,         \* items of the playlist_add_items calls of this call, in order
    removedItems,  \* items of the removal call of this call
    E0,            \* the remote contents of upid when the call started
    raced,         \* the user added to upid while the call was running
    staleRead,     \* the call read a cached set that differed from the remote
    prev,          \* the previous update call of this process
    calls,         \* update calls so far
    humanAdds,     \* manual additions so far
    humanAdded     \* <<playlist, URI>> pairs the user added

updVars == <<remote, playlist_tracks_cache, upc, ukind, upid, track_uris, already,
             to_add, added, removedItems, E0, raced, staleRead, prev, calls,
             humanAdds, humanAdded>>

VARIABLES
    savedTracks,   \* remote Liked Songs as current_user_saved_tracks pages it
    parquet,       \* playlist_tracks.parquet of scripts/spotify_sync.py
    checkpoint,    \* the file .liked_sync_offset: NoFile or its content
    lpc,           \* position of sync_liked_songs
    offset,        \* its local offset
    liked_tracks,  \* its local liked_tracks
    requested,     \* offsets requested by the running process, in order
    parquet0,      \* the parquet file when the interrupted job first started
    interrupts,    \* interruptions so far
    resumedAt,     \* checkpoint content the running process resumed from
    checkpointAtStart,   \* the checkpoint file as the running process found it
    parquetAtStart,      \* the parquet file as the running process found it
    likedRuns      \* sync_liked_songs calls so far

likedVars == <<savedTracks, parquet, checkpoint, lpc, offset, liked_tracks,
               requested, parquet0, interrupts, resumedAt, checkpointAtStart,
               parquetAtStart, likedRuns>>

(***************************************************************************)
(* api_call (scripts/spotify_sync.py, scripts/automation/sync.py): the     *)
(* retrying wrapper of every remote call and the module-wide multiplier.   *)
(***************************************************************************)
VARIABLES
    RATE_BACKOFF_MULTIPLIER,  \* the global _RATE_BACKOFF_MULTIPLIER, a ratio
    apc,            \* position in api_call: idle, loop, returned, raised
    fn,             \* the wrapped operation
    max_retries,    \* the max_retries argument
    attempt,        \* the loop variable of `for attempt in range(max_retries)`
    invocations,    \* calls of fn made by the current api_call
    thrown,         \* what the latest call of fn raised, NoError if it returned
    sleeps,         \* the time.sleep calls of the current api_call, in order
    outcome,        \* how the current api_call ended
    apiCalls,       \* api_call calls so far
    SPOTIFY_API_DELAY   \* os.environ["SPOTIFY_API_DELAY"], hundredths of a second

apiVars == <<RATE_BACKOFF_MULTIPLIER, apc, fn, max_retries, attempt,
             invocations, thrown, sleeps, outcome, apiCalls,
             SPOTIFY_API_DELAY>>

(***************************************************************************)
(* Spotim8._paginate (spotim8/client.py): following the next cursors.      *)
(***************************************************************************)
VARIABLES
    pagTable,       \* the remote pages by cursor; cursor 1 is the first page
    pagpc,          \* position in _paginate: idle, loop, done, failed
    first_page,     \* the first_page argument
    pagPage,        \* the local variable page
    pagItems,       \* the local variable items
    nextCalls       \* the cursors requested through sp.next, in call order

pagVars == <<pagTable, pagpc, first_page, pagPage, pagItems, nextCalls>>

(***************************************************************************)
(* _chunked and the add loop of the playlist-update functions:             *)
(* `for chunk in _chunked(to_add, n): api_call(sp.playlist_add_items, ..)` *)
(***************************************************************************)
VARIABLES
    script,         \* the file whose update function runs the loop
    cpc,            \* position in the loop: idle, loop, done, failed
    chSeq,          \* the seq argument of _chunked (to_add or the new list)
    chN,            \* the n argument of _chunked
    chI,            \* the loop variable i of _chunked
    addCalls        \* the chunks passed to sp.playlist_add_items, in order

chunkVars == <<script, cpc, chSeq, chN, chI, addCalls>>

(***************************************************************************)
(* update_master_genre_playlists (automation/playlist_update.py): the loop *)
(* over the selected genres with its removal of mismatching liked songs.   *)
(***************************************************************************)
VARIABLES
    genrePlaylists, \* the remote master playlist of each genre, as URIs
    uri_to_genres,  \* the broad genres of each liked song
    mpc,            \* position: idle, loop (top of an iteration), add, done
    selected,       \* the list selected
    genreIdx,       \* index of the genre the loop is at
    already_in_playlist, \* the local variable of that name
    removeCalls,    \* the safe_remove_tracks_from_playlist calls of the run
    reports,        \* the warnings logged for failed removals
    masterRuns      \* runs of update_master_genre_playlists so far

masterVars == <<genrePlaylists, uri_to_genres, mpc, selected, genreIdx,
                already_in_playlist, removeCalls, reports, masterRuns>>

\* server.py: the HTTP server that starts sync runs in background threads
VARIABLES
    running_tasks,    \* task id -> task record (module-level dict)
    task_results,     \* task id -> copy of the finished task record
    threads,          \* the threads started by trigger_sync, in start order
    clock             \* datetime.now() truncated to the second

serverVars == <<running_tasks, task_results, threads, clock>>

\* Spotim8.tracks and the genres column of the tracks table
VARIABLES
    library,       \* track ids of the stored playlist_tracks table
    tracksTable,   \* the tracks table: [exists, genres: track id -> genres value]
    genresBefore,  \* history: the genres column as the table last held it
    trLast,        \* the last operation on the table
    trOps          \* operations so far

tracksVars == <<library, tracksTable, genresBefore, trLast, trOps>>

\* sync_artists of scripts/spotify_sync.py
VARIABLES
    artist_checkpoint,   \* artist ids in DATA_DIR/.artist_sync_done
    artists_parquet,     \* artists.parquet: [exists, rows: artist id -> genres]
    all_artists,         \* the dict being built: artist id -> genres
    artist_ids,          \* ids still to be asked from sp.artists
    arpc,                \* position in sync_artists
    artistRuns           \* calls so far

artistVars == <<artist_checkpoint, artists_parquet, all_artists, artist_ids,
                arpc, artistRuns>>

\* main of scripts/automation/sync.py
VARIABLES
    mainpc,          \* position in main
    args,            \* the parsed command line
    sync_success,    \* what sync_full_library returned ("unset" before)
    summary,         \* summary["sync_completed"]
    stepIdx,         \* the step of the playlist update phase
    mainSuccess,     \* main: success
    mainError,       \* main: error
    emails,          \* notifications sent: the success flag of each
    exit_status      \* the exit status of the process ("running" before)

mainVars == <<mainpc, args, sync_success, summary, stepIdx, mainSuccess, mainError,
              emails, exit_status>>

\* the month selection of update_monthly_playlists
VARIABLES
    finds_months,         \* months that have liked songs
    history_months,       \* months that have streaming history
    keep_last_n_months,   \* the argument
    recent_months,        \* the months selected
    monthQueue,           \* months the loop has still to visit
    month_to_tracks,      \* months visited by the loop
    monthlyWritten,       \* months whose playlist was created or updated
    mopc                  \* position in the function

monthVars == <<finds_months, history_months, keep_last_n_months, recent_months,
               monthQueue, month_to_tracks, monthlyWritten, mopc>>

\* the genre-inference workers of compute_track_genres_incremental
VARIABLES
    wpc,                   \* position of the main thread
    submittedIds,          \* track ids of track_data_list
    failingIds,            \* tracks whose inference raises
    futures,               \* track id -> [state, result] of its future
    collected,             \* futures as_completed has handed out, in order
    inferred_genres_map    \* the result map

workerVars == <<wpc, submittedIds, failingIds, futures, collected,
                inferred_genres_map>>

vars == <<syncVars, updVars, likedVars, apiVars, pagVars, chunkVars, masterVars, serverVars, tracksVars, artistVars, mainVars, monthVars, workerVars>>

(***************************************************************************)
(* Each component starts from, and the other components stay at, these     *)
(* values.                                                                 *)
(***************************************************************************)
\* the playlists of the write-back: a monthly "Finds" playlist, a
\* genre-split monthly playlist, a master genre playlist and the yearly
\* playlist old monthly playlists are consolidated into, all existing
UpdPlaylists == {"PM", "PG", "PX", "PY"}
NoEntry == [has |-> FALSE, uris |-> {}]     \* pid not in _playlist_tracks_cache
NoCall == [kind |-> "none", pid |-> "none", uris |-> <<>>, status |-> "none",
           added |-> <<>>]

UpdateInitial ==
    /\ remote = [p \in UpdPlaylists |-> IF p = "PM" THEN <<"u3">> ELSE <<"u1">>]
    /\ playlist_tracks_cache = [p \in UpdPlaylists |-> NoEntry]
    /\ upc = "idle"
    /\ ukind = "none" /\ upid = "none"
    /\ track_uris = <<>>
    /\ already = {}
    /\ to_add = <<>>
    /\ added = <<>>
    /\ removedItems = {}
    /\ E0 = <<>>
    /\ raced = FALSE /\ staleRead = FALSE
    /\ prev = NoCall
    /\ calls = 0
    /\ humanAdds = 0
    /\ humanAdded = {}

NoFile == [exists |-> FALSE, text |-> 0]    \* checkpoint_path.exists() is False

LikedInitial ==
    /\ savedTracks = <<>>
    /\ parquet = NoTable
    /\ checkpoint = NoFile
    /\ lpc = "idle"
    /\ offset = 0
    /\ liked_tracks = <<>>
    /\ requested = <<>>
    /\ parquet0 = NoTable
    /\ interrupts = 0
    /\ resumedAt = 0
    /\ checkpointAtStart = NoFile
    /\ parquetAtStart = NoTable
    /\ likedRuns = 0

Ratio(n, d) == [num |-> n, den |-> d]      \* the number n / d
NoError == [type |-> "none"]
NoOutcome == [kind |-> "none"]

ApiInitial ==
    /\ RATE_BACKOFF_MULTIPLIER = Ratio(1, 1)
    /\ apc = "idle"
    /\ fn = "none"
    /\ max_retries = 0
    /\ attempt = 0
    /\ invocations = 0
    /\ thrown = NoError
    /\ sleeps = <<>>
    /\ outcome = NoOutcome
    /\ apiCalls = 0
    /\ SPOTIFY_API_DELAY = 15

\* a page without items and without a next cursor
EmptyPage == [items |-> <<>>, next |-> 0]

PaginateInitial ==
    /\ pagTable = <<EmptyPage>>
    /\ pagpc = "idle"
    /\ first_page = EmptyPage
    /\ pagPage = EmptyPage
    /\ pagItems = <<>>
    /\ nextCalls = <<>>

ChunkInitial ==
    /\ script = "none"
    /\ cpc = "idle"
    /\ chSeq = <<>>
    /\ chN = 0
    /\ chI = 0
    /\ addCalls = <<>>

Genres == {"g1", "g2"}

MasterInitial ==
    /\ genrePlaylists = [g \in Genres |-> <<>>]
    /\ uri_to_genres = [u \in {"u1", "u2"} |-> {}]
    /\ mpc = "idle"
    /\ selected = <<>>
    /\ genreIdx = 0
    /\ already_in_playlist = {}
    /\ removeCalls = <<>>
    /\ reports = <<>>
    /\ masterRuns = 0

NoTask == [status |-> "none"]

ServerInitial ==
    /\ running_tasks = [t \in {} |-> NoTask]
    /\ task_results = [t \in {} |-> NoTask]
    /\ threads = <<>>
    /\ clock = 0

\* no tracks table: neither file nor memo entry
NoTracks == [exists |-> FALSE, genres |-> <<>>]

TracksInitial ==
    /\ library = {"t1", "t2"}
    /\ tracksTable = [exists |-> TRUE,
                      genres |-> [t \in {"t1", "t2"} |->
                                     IF t = "t1" THEN "rock" ELSE "None"]]
    /\ genresBefore = <<>>
    /\ trLast = "none"
    /\ trOps = 0

\* no artists.parquet yet
NoArtists == [exists |-> FALSE, rows |-> <<>>]

ArtistsInitial ==
    /\ artist_checkpoint = {}
    /\ artists_parquet = NoArtists
    /\ all_artists = <<>>
    /\ artist_ids = <<>>
    /\ arpc = "idle"
    /\ artistRuns = 0

\* argparse defaults
NoArgs == [skip_sync |-> FALSE, sync_only |-> FALSE, force |-> FALSE]

MainInitial ==
    /\ mainpc = "idle"
    /\ args = NoArgs
    /\ sync_success = "unset"
    /\ summary = "unset"
    /\ stepIdx = 0
    /\ mainSuccess = FALSE
    /\ mainError = "None"
    /\ emails = <<>>
    /\ exit_status = "running"

MonthsInitial ==
    /\ finds_months = {}
    /\ history_months = {}
    /\ keep_last_n_months = 3
    /\ recent_months = <<>>
    /\ monthQueue = <<>>
    /\ month_to_tracks = {}
    /\ monthlyWritten = {}
    /\ mopc = "idle"

WorkersInitial ==
    /\ wpc = "idle"
    /\ submittedIds = {}
    /\ failingIds = {}
    /\ futures = <<>>
    /\ collected = <<>>
    /\ inferred_genres_map = <<>>

otherThanSync == <<updVars, likedVars, apiVars, pagVars, chunkVars, masterVars, serverVars, tracksVars, artistVars, mainVars, monthVars, workerVars>>
otherThanUpdate == <<syncVars, likedVars, apiVars, pagVars, chunkVars, masterVars, serverVars, tracksVars, artistVars, mainVars, monthVars, workerVars>>
otherThanLiked == <<syncVars, updVars, apiVars, pagVars, chunkVars, masterVars, serverVars, tracksVars, artistVars, mainVars, monthVars, workerVars>>
otherThanApi == <<syncVars, updVars, likedVars, pagVars, chunkVars, masterVars, serverVars, tracksVars, artistVars, mainVars, monthVars, workerVars>>
otherThanPaginate == <<syncVars, updVars, likedVars, apiVars, chunkVars, masterVars, serverVars, tracksVars, artistVars, mainVars, monthVars, workerVars>>
otherThanChunk == <<syncVars, updVars, likedVars, apiVars, pagVars, masterVars, serverVars, tracksVars, artistVars, mainVars, monthVars, workerVars>>
otherThanMaster == <<syncVars, updVars, likedVars, apiVars, pagVars, chunkVars, serverVars, tracksVars, artistVars, mainVars, monthVars, workerVars>>
otherThanServer == <<syncVars, updVars, likedVars, apiVars, pagVars, chunkVars, masterVars, tracksVars, artistVars, mainVars, monthVars, workerVars>>
otherThanTracks == <<syncVars, updVars, likedVars, apiVars, pagVars, chunkVars, masterVars, serverVars, artistVars, mainVars, monthVars, workerVars>>
otherThanArtists == <<syncVars, updVars, likedVars, apiVars, pagVars, chunkVars, masterVars, serverVars, tracksVars, mainVars, monthVars, workerVars>>
otherThanMain == <<syncVars, updVars, likedVars, apiVars, pagVars, chunkVars, masterVars, serverVars, tracksVars, artistVars, monthVars, workerVars>>
otherThanMonths == <<syncVars, updVars, likedVars, apiVars, pagVars, chunkVars, masterVars, serverVars, tracksVars, artistVars, mainVars, workerVars>>
otherThanWorkers == <<syncVars, updVars, likedVars, apiVars, pagVars, chunkVars, masterVars, serverVars, tracksVars, artistVars, mainVars, monthVars>>

(***************************************************************************)
(* Spotim8.playlists: the listing and its version tokens.                  *)
(***************************************************************************)
\* snapshot_id of a listed collection; Liked Songs uses its count
Token(pid) ==
    IF pid = LIKED_SONGS_PLAYLIST_ID
    THEN <<"liked_songs", Len(rItems[LIKED_SONGS_PLAYLIST_ID])>>
    ELSE <<"snap", rSnap[pid]>>
\* the playlist ids of the table playlists(force=True) builds: Liked Songs
\* first, then the remote listing in its order
PlaylistsListing(inclLiked) ==
    (IF inclLiked THEN <<LIKED_SONGS_PLAYLIST_ID>> ELSE <<>>)
        \o Filter(ListingOrder, {p \in RegularIds : rExists[p]})
\* pls[pls["is_owned"].eq(True)] when owned_only
ScopedListing(inclLiked, ownedOnly) ==
    IF ownedOnly
    THEN Filter(PlaylistsListing(inclLiked), {p \in AllIds : IsOwned(p)})
    ELSE PlaylistsListing(inclLiked)
\* {r["playlist_id"]: r.get("snapshot_id") for _, r in pls.iterrows()}
SnapshotsOf(ids) == [p \in Range(ids) |-> Token(p)]

\* dict.get(key)
Get(map, key) == IF key \in DOMAIN map THEN map[key] ELSE None

RECURSIVE DiffLoopKnownOnly(_, _, _)
\* a faulty DiffLoop: compares only the ids the old map already holds
DiffLoopKnownOnly(old, new, order) ==
    IF order = <<>> THEN <<>>
    ELSE IF Head(order) \in DOMAIN old /\ old[Head(order)] # new[Head(order)]
         THEN <<Head(order)>> \o DiffLoopKnownOnly(old, new, Tail(order))
         ELSE DiffLoopKnownOnly(old, new, Tail(order))

RECURSIVE DiffLoop(_, _, _)
\* for pid, snap in new_snapshots.items(): if old.get(pid) != snap: append
DiffLoop(old, new, order) ==
    IF order = <<>> THEN <<>>
    ELSE IF Get(old, Head(order)) # new[Head(order)]
         THEN <<Head(order)>> \o DiffLoop(old, new, Tail(order))
         ELSE DiffLoop(old, new, Tail(order))

\* a faulty ChangedList: every listed id, whatever the stored snapshots say
ChangedListAll(old, new, order, frc) == order

\* the list `changed`; `order` is the key order of new_snapshots
ChangedList(old, new, order, frc) ==
    IF frc \/ old = NoMap THEN order ELSE DiffLoop(old, new, order)

(***************************************************************************)
(* Rows of the playlist_tracks table.                                      *)
(***************************************************************************)
Row(pid, tid, pos) == [playlist_id |-> pid, track_id |-> tid, position |-> pos]
\* the rows of a row sequence whose playlist_id is in pids, in order
RECURSIVE RowsWhere(_, _)
RowsWhere(rws, pids) ==
    IF rws = <<>> THEN <<>>
    ELSE IF Head(rws).playlist_id \in pids
         THEN <<Head(rws)>> \o RowsWhere(Tail(rws), pids)
         ELSE RowsWhere(Tail(rws), pids)
\* the rows of a persisted table (none when absent) for one playlist
RowsOf(table, pid) == RowsWhere(table.rows, {pid})

\* _fetch_playlist_tracks_rows: one row per item, position = index
PlaylistRows(pid, items) ==
    [i \in 1..Len(items) |-> Row(pid, items[i], i - 1)]

MaxLikedPages == 3       \* pages of Liked Songs a run can fetch before it raises
LikedPageLimit == 1      \* limit=50 of current_user_saved_tracks, scaled
\* one page of saved tracks
SavedTracksPage(items, off, limit) ==
    SubSeq(items, off + 1, IF off + limit < Len(items)
                              THEN off + limit ELSE Len(items))
RECURSIVE LikedPageLoop(_, _, _)
\* while off < total: fetch at off; stop on an empty page
LikedPageLoop(items, off, total) ==
    IF off < total /\ SavedTracksPage(items, off, LikedPageLimit) # <<>>
    THEN SavedTracksPage(items, off, LikedPageLimit)
           \o LikedPageLoop(items,
                  off + Len(SavedTracksPage(items, off, LikedPageLimit)), total)
    ELSE <<>>
RECURSIVE LikedLoopOffsets(_, _, _)
\* the offsets the while loop requests
LikedLoopOffsets(items, off, total) ==
    IF off < total
    THEN <<off>> \o (IF SavedTracksPage(items, off, LikedPageLimit) = <<>> THEN <<>>
                     ELSE LikedLoopOffsets(items,
                              off + Len(SavedTracksPage(items, off, LikedPageLimit)),
                              total))
    ELSE <<>>
\* every offset _fetch_liked_songs_rows requests: the first call at 0, then
\* the loop from offset = limit
LikedRequestOffsets(items) ==
    <<0>> \o LikedLoopOffsets(items, LikedPageLimit, Len(items))

\* _fetch_liked_songs_rows on a library that does not change meanwhile
LikedRows(items) ==
    LET all == SavedTracksPage(items, 0, LikedPageLimit)
                 \o LikedPageLoop(items, LikedPageLimit, Len(items))
    IN  [i \in 1..Len(all) |-> Row(LIKED_SONGS_PLAYLIST_ID, all[i], i - 1)]

\* "Load existing or create new": the rows sync keeps
KeptRows(table, chg, frc) ==
    IF ~table.exists \/ frc THEN <<>>
    ELSE RowsWhere(table.rows, AllIds \ Range(chg))

\* "if rows:" concat and save, else leave the file as it is
SavedTable(table, kept, fetched) ==
    IF fetched # <<>> THEN Table(kept \o fetched) ELSE table

\* a faulty TableAfterRaise: saves what was fetched before the error
TableAfterRaisePartial(table, kept, fetched) == Table(kept \o fetched)

\* a fetch raises inside the loop: nothing catches it, the save at line 221 is
\* not reached and the file stays as it was
TableAfterRaise(table, kept, fetched) == table

\* the tables sync invalidates
DerivedKeys == {"tracks", "track_artists", "artists", "library_wide", "liked_songs"}
\* the tables sf.tracks(), sf.artists() (through track_artists()) and
\* sf.library_wide() build and save
RegeneratedKeys == {"tracks", "track_artists", "artists", "library_wide"}
\* "p.unlink(missing_ok=True)" for every key
FilesAfterInvalidate(files) == files \ DerivedKeys
\* a faulty MemoAfterInvalidate: the memo is kept
MemoKept(mem) == mem
\* "self.catalog._memo.pop(key, None)" for every key
MemoAfterInvalidate(mem) == mem \ DerivedKeys

\* the metadata record; catalog.load_meta of a fresh cache directory is {}:
\* no user id, no snapshots, last_sync_utc 0 ("Never") and no scope flags yet
EmptyMeta == [me_id |-> FALSE, playlist_snapshots |-> NoMap, last_sync_utc |-> 0,
              owned_only |-> FALSE, include_liked_songs |-> FALSE]
\* _me_id: stores the user id the first time it is asked for
MeIdStored(m) == [m EXCEPT !.me_id = TRUE]
\* a faulty CommittedMeta: updates the stored map instead of replacing it
CommittedMetaMerged(m, new, now, ownedOnly, inclLiked) ==
    [m EXCEPT !.playlist_snapshots =
                  [k \in DOMAIN m.playlist_snapshots \cup DOMAIN new |->
                      IF k \in DOMAIN new THEN new[k] ELSE m.playlist_snapshots[k]],
              !.last_sync_utc = now,
              !.owned_only = ownedOnly, !.include_liked_songs = inclLiked]

\* a faulty CommittedMeta: commits the tokens of a listing read at commit time
CommittedMetaRelisted(m, new, now, ownedOnly, inclLiked) ==
    [m EXCEPT !.playlist_snapshots = SnapshotsOf(ScopedListing(inclLiked, ownedOnly)),
              !.last_sync_utc = now,
              !.owned_only = ownedOnly, !.include_liked_songs = inclLiked]

\* "Update metadata": the record sync hands to save_meta
CommittedMeta(m, new, now, ownedOnly, inclLiked) ==
    [m EXCEPT !.playlist_snapshots = new, !.last_sync_utc = now,
              !.owned_only = ownedOnly, !.include_liked_songs = inclLiked]

(***************************************************************************)
(* Spotim8.sync, step by step.                                             *)
(***************************************************************************)
\* pc: "idle" (no sync running), "liked", "playlists", "commit" (inside sync),
\* "done" / "failed" (sync has just returned / raised; its locals still readable)
\* The running sync is affected by an edit of a collection made before it
\* fetches that collection; such an edit is taken right before the fetch. An
\* edit of a regular collection made after its fetch is taken when all
\* fetches are done and the table is not yet saved. An edit at any other
\* point of the run commutes with the steps up to one of these points or up
\* to the return, and is taken there.
CanEdit(pid) ==
    \/ pc = "idle"
    \/ pc = "liked" /\ pid = LIKED_SONGS_PLAYLIST_ID
    \/ pc = "playlists" /\ todo # <<>> /\ pid = Head(todo)
    \/ pc = "playlists" /\ todo = <<>> /\ pid \in Range(fetchCalls) \cap RegularIds

SyncInitial ==
    /\ rItems = [p \in AllIds |-> IF p = "B" THEN <<"t2">> ELSE <<"t1">>]
    /\ rSnap = [p \in RegularIds |-> 0]
    /\ rExists = [p \in RegularIds |-> TRUE]
    /\ edits = 0
    /\ pt = NoTable
    /\ derived = {}
    /\ meta = EmptyMeta
    /\ syncs = 0
    /\ pc = "idle"
    /\ force = FALSE /\ owned_only = FALSE /\ include_liked_songs = FALSE
    /\ metaLocal = EmptyMeta
    /\ new_snapshots = NoMap
    /\ changed = <<>> /\ todo = <<>>
    /\ ptLocal = <<>> /\ rows = <<>>
    /\ fetchCalls = <<>>
    /\ ptAtStart = NoTable
    /\ likedOffsets = <<>>
    /\ interruptedAfter = 0
    /\ resumeExpected = 0
    /\ memo = {}
    /\ playlistsTable = FALSE

InitSync == SyncInitial /\ UpdateInitial /\ LikedInitial /\ ApiInitial /\ PaginateInitial /\ ChunkInitial /\ MasterInitial /\ ServerInitial /\ TracksInitial /\ ArtistsInitial /\ MainInitial /\ MonthsInitial /\ WorkersInitial

remoteVars == <<rItems, rSnap, rExists, edits>>
localVars == <<force, owned_only, include_liked_songs, metaLocal, new_snapshots,
               changed, todo, ptLocal, rows, fetchCalls, ptAtStart>>

RECURSIVE Reversed(_)
Reversed(seq) == IF seq = <<>> THEN <<>> ELSE Reversed(Tail(seq)) \o <<Head(seq)>>

\* a faulty RegularChanged: the changed playlists in the opposite order
RegularChangedReversed(chg) == Reversed(Filter(chg, RegularIds))

\* changed = [pid for pid in changed if pid != LIKED_SONGS_PLAYLIST_ID]
RegularChanged(chg) == Filter(chg, RegularIds)

\* lines 159-195: list, diff against the stored snapshots, load the table
SyncStart(frc, ownedOnly, inclLiked) ==
    /\ pc = "idle"
    /\ syncs < MaxSyncs
    /\ LET listing == ScopedListing(inclLiked, ownedOnly)
           m == MeIdStored(meta)
           new == SnapshotsOf(listing)
           chg == ChangedList(m.playlist_snapshots, new, listing, frc)
       IN  /\ meta' = m
           /\ metaLocal' = m
           /\ new_snapshots' = new
           /\ changed' = chg
           /\ ptLocal' = IF chg # <<>> THEN KeptRows(pt, chg, frc) ELSE <<>>
           /\ pc' = IF chg = <<>> THEN "commit"
                    ELSE IF LIKED_SONGS_PLAYLIST_ID \in Range(chg) THEN "liked"
                    ELSE "playlists"
           /\ todo' = RegularChanged(chg)
    /\ syncs' = syncs + 1
    /\ force' = frc /\ owned_only' = ownedOnly /\ include_liked_songs' = inclLiked
    /\ rows' = <<>>
    /\ fetchCalls' = <<>>
    /\ ptAtStart' = pt
    /\ likedOffsets' = <<>>
    /\ resumeExpected' = interruptedAfter
    /\ interruptedAfter' = 0
    \* line 163: playlists(force=True) saves the playlists table
    /\ playlistsTable' = TRUE
    /\ memo' = memo \cup {"playlists"}
    /\ UNCHANGED <<remoteVars, pt, derived>>
    /\ UNCHANGED otherThanSync

\* lines 199-204: Liked Songs first, through its own endpoint
FetchLiked ==
    /\ pc = "liked"
    /\ rows' = rows \o LikedRows(rItems[LIKED_SONGS_PLAYLIST_ID])
    /\ fetchCalls' = Append(fetchCalls, LIKED_SONGS_PLAYLIST_ID)
    /\ likedOffsets' = LikedRequestOffsets(rItems[LIKED_SONGS_PLAYLIST_ID])
    /\ pc' = "playlists"
    /\ UNCHANGED <<remoteVars, pt, derived, meta, syncs, force, owned_only,
                   include_liked_songs, metaLocal, new_snapshots, changed, todo,
                   ptLocal, ptAtStart, interruptedAfter, resumeExpected>>
    /\ UNCHANGED <<memo, playlistsTable>>
    /\ UNCHANGED otherThanSync

\* lines 211-212: one iteration of the loop over the changed playlists
FetchPlaylist ==
    /\ pc = "playlists"
    /\ todo # <<>>
    /\ rExists[Head(todo)]
    /\ rows' = rows \o PlaylistRows(Head(todo), rItems[Head(todo)])
    /\ fetchCalls' = Append(fetchCalls, Head(todo))
    /\ todo' = Tail(todo)
    /\ UNCHANGED <<remoteVars, pt, derived, meta, syncs, pc, force, owned_only,
                   include_liked_songs, metaLocal, new_snapshots, changed,
                   ptLocal, ptAtStart>>
    /\ UNCHANGED <<likedOffsets, interruptedAfter, resumeExpected>>
    /\ UNCHANGED <<memo, playlistsTable>>
    /\ UNCHANGED otherThanSync

\* a fetch raises (retries exhausted, playlist gone): sync propagates it;
\* in _fetch_liked_songs_rows it is the request after k fetched pages
FetchRaises(k) ==
    /\ \/ pc = "liked"
          /\ k < Len(LikedRequestOffsets(rItems[LIKED_SONGS_PLAYLIST_ID]))
       \/ pc = "playlists" /\ todo # <<>> /\ k = 0
    /\ likedOffsets' =
           IF pc = "liked"
           THEN SubSeq(LikedRequestOffsets(rItems[LIKED_SONGS_PLAYLIST_ID]), 1, k + 1)
           ELSE likedOffsets
    /\ interruptedAfter' = k
    /\ fetchCalls' = Append(fetchCalls,
                        IF pc = "liked" THEN LIKED_SONGS_PLAYLIST_ID ELSE Head(todo))
    /\ pc' = "failed"
    /\ pt' = TableAfterRaise(pt, ptLocal, rows)
    /\ UNCHANGED <<remoteVars, derived, meta, syncs, force, owned_only,
                   include_liked_songs, metaLocal, new_snapshots, changed, todo,
                   ptLocal, rows, ptAtStart, resumeExpected>>
    /\ UNCHANGED <<memo, playlistsTable>>
    /\ UNCHANGED otherThanSync

\* lines 214-228: save the table when rows were fetched, drop derived tables
SaveAndInvalidate ==
    /\ pc = "playlists"
    /\ todo = <<>>
    /\ pt' = SavedTable(pt, ptLocal, rows)
    /\ derived' = FilesAfterInvalidate(derived)
    /\ memo' = MemoAfterInvalidate(IF rows # <<>> THEN memo \cup {"playlist_tracks"}
                                   ELSE memo)
    /\ UNCHANGED playlistsTable
    /\ pc' = "commit"
    /\ UNCHANGED <<remoteVars, meta, syncs, localVars>>
    /\ UNCHANGED <<likedOffsets, interruptedAfter, resumeExpected>>
    /\ UNCHANGED otherThanSync

\* lines 232-237: "Update metadata"
Commit ==
    /\ pc = "commit"
    /\ meta' = CommittedMeta(metaLocal, new_snapshots, syncs, owned_only,
                             include_liked_songs)
    /\ pc' = "done"
    /\ UNCHANGED <<remoteVars, pt, derived, syncs, localVars>>
    /\ UNCHANGED <<likedOffsets, interruptedAfter, resumeExpected>>
    /\ UNCHANGED <<memo, playlistsTable>>
    /\ UNCHANGED otherThanSync

\* sync_full_library after sf.sync: "Only regenerate derived tables if
\* something changed" (stats["playlists_updated"] is len(changed))
MustRegenerate ==
    pc = "done" /\ changed # <<>> /\ ~(RegeneratedKeys \subseteq derived)

\* sf.tracks(), sf.artists(), sf.library_wide(): derived tables rebuilt on read
RegenerateDerived ==
    /\ MustRegenerate
    /\ derived' = derived \cup RegeneratedKeys
    /\ memo' = memo \cup RegeneratedKeys
    /\ UNCHANGED playlistsTable
    /\ UNCHANGED <<remoteVars, pt, meta, syncs, pc, localVars>>
    /\ UNCHANGED <<likedOffsets, interruptedAfter, resumeExpected>>
    /\ UNCHANGED otherThanSync

\* sf.liked_songs() between syncs: loads the table or, when it is absent,
\* fetches Liked Songs and saves it
ReadLikedSongs ==
    /\ pc = "idle"
    /\ "liked_songs" \notin derived
    /\ derived' = derived \cup {"liked_songs"}
    /\ memo' = memo \cup {"liked_songs"}
    /\ UNCHANGED <<remoteVars, pt, meta, syncs, pc, localVars, playlistsTable>>
    /\ UNCHANGED <<likedOffsets, interruptedAfter, resumeExpected>>
    /\ UNCHANGED otherThanSync

\* sync's frame is gone: back to the caller
Return ==
    /\ pc \in {"done", "failed"}
    /\ ~MustRegenerate
    /\ pc' = "idle"
    /\ force' = FALSE /\ owned_only' = FALSE /\ include_liked_songs' = FALSE
    /\ metaLocal' = EmptyMeta
    /\ new_snapshots' = NoMap
    /\ changed' = <<>> /\ todo' = <<>>
    /\ ptLocal' = <<>> /\ rows' = <<>>
    /\ fetchCalls' = <<>>
    /\ ptAtStart' = NoTable
    /\ likedOffsets' = <<>>
    /\ resumeExpected' = 0
    /\ UNCHANGED <<remoteVars, pt, derived, meta, syncs, interruptedAfter>>
    /\ UNCHANGED <<memo, playlistsTable>>
    /\ UNCHANGED otherThanSync

(***************************************************************************)
(* The user edits the remote library while and between syncs: adds to and  *)
(* removes from the own playlist A and Liked Songs, unfollows or deletes   *)
(* a playlist.                                                             *)
(***************************************************************************)
Editable == {"A", LIKED_SONGS_PLAYLIST_ID}
RemoteAdd(pid, t) ==
    /\ CanEdit(pid)
    /\ edits < MaxEdits
    /\ pid \in RegularIds => rExists[pid]
    \* a saved track is in Liked Songs once; newest first
    /\ pid = LIKED_SONGS_PLAYLIST_ID => t \notin Range(rItems[pid])
    /\ rItems' = [rItems EXCEPT ![pid] =
                     IF pid = LIKED_SONGS_PLAYLIST_ID THEN <<t>> \o @ ELSE Append(@, t)]
    /\ rSnap' = IF pid \in RegularIds THEN [rSnap EXCEPT ![pid] = @ + 1] ELSE rSnap
    /\ edits' = edits + 1
    /\ UNCHANGED <<rExists, pt, derived, meta, syncs, pc, localVars>>
    /\ UNCHANGED <<likedOffsets, interruptedAfter, resumeExpected>>
    /\ UNCHANGED <<memo, playlistsTable>>
    /\ UNCHANGED otherThanSync

RemoteRemove(pid, i) ==
    /\ CanEdit(pid)
    /\ edits < MaxEdits
    /\ i \in 1..Len(rItems[pid])
    /\ pid \in RegularIds => rExists[pid]
    /\ rItems' = [rItems EXCEPT ![pid] = RemoveAt(@, i)]
    /\ rSnap' = IF pid \in RegularIds THEN [rSnap EXCEPT ![pid] = @ + 1] ELSE rSnap
    /\ edits' = edits + 1
    /\ UNCHANGED <<rExists, pt, derived, meta, syncs, pc, localVars>>
    /\ UNCHANGED <<likedOffsets, interruptedAfter, resumeExpected>>
    /\ UNCHANGED <<memo, playlistsTable>>
    /\ UNCHANGED otherThanSync

RemoteDelete(pid) ==
    /\ CanEdit(pid)
    /\ edits < MaxEdits
    /\ rExists[pid]
    /\ rExists' = [rExists EXCEPT ![pid] = FALSE]
    /\ edits' = edits + 1
    /\ UNCHANGED <<rItems, rSnap, pt, derived, meta, syncs, pc, localVars>>
    /\ UNCHANGED <<likedOffsets, interruptedAfter, resumeExpected>>
    /\ UNCHANGED <<memo, playlistsTable>>
    /\ UNCHANGED otherThanSync

NextSync ==
    \/ \E frc \in BOOLEAN, ownedOnly \in BOOLEAN, inclLiked \in BOOLEAN :
           SyncStart(frc, ownedOnly, inclLiked)
    \/ FetchLiked
    \/ FetchPlaylist
    \/ \E k \in 0..MaxLikedPages : FetchRaises(k)
    \/ SaveAndInvalidate
    \/ Commit
    \/ RegenerateDerived
    \/ ReadLikedSongs
    \/ Return
    \/ \E pid \in Editable, t \in Tracks : RemoteAdd(pid, t)
    \/ \E pid \in Editable, i \in 1..(1 + MaxEdits) : RemoteRemove(pid, i)
    \/ \E pid \in RegularIds : RemoteDelete(pid)

SpecSync == InitSync /\ [][NextSync]_vars

(***************************************************************************)
(* Claims about Spotim8.sync (checked under SpecSync).                     *)
(***************************************************************************)
oldSnapshots == metaLocal.playlist_snapshots
\* the key order of a snapshot map built from a listing
KeyOrder(new) == Filter(<<LIKED_SONGS_PLAYLIST_ID>> \o ListingOrder, DOMAIN new)
\* the changed set a non-forced sync computes from a stored map and a listing
DiffSet(old, new) ==
    IF old = NoMap THEN DOMAIN new
    ELSE {c \in DOMAIN new : new[c] # Get(old, c)}

\* C1: after a successful sync the persisted rows of every changed collection
\* are exactly the rows fetched for it in this run, also when nothing was
\* fetched for it.
C1_FullReplaceOnChange ==
    pc = "done" =>
        \A c \in Range(changed) : RowsOf(pt, c) = RowsWhere(rows, {c})

\* C2: in a non-forced sync with a non-empty stored map, a collection whose
\* listed token equals the stored one is not fetched and keeps its rows; when
\* the two maps are equal nothing is fetched and the table is unchanged.
C2_UnchangedUntouched ==
    (pc # "idle" /\ ~force /\ oldSnapshots # NoMap) =>
        /\ \A c \in DOMAIN new_snapshots :
               Get(oldSnapshots, c) = new_snapshots[c] =>
                   /\ c \notin Range(fetchCalls)
                   /\ RowsOf(pt, c) = RowsOf(ptAtStart, c)
        /\ new_snapshots = oldSnapshots => fetchCalls = <<>> /\ pt = ptAtStart
\* a finished non-forced sync that fetched one collection and left another,
\* which has rows, alone
C2_Witness ==
    /\ pc = "done" /\ ~force /\ oldSnapshots # NoMap
    /\ fetchCalls # <<>>
    /\ \E c \in DOMAIN new_snapshots :
           /\ Get(oldSnapshots, c) = new_snapshots[c]
           /\ RowsOf(ptAtStart, c) # <<>>

\* C3: the changed set is every listed id when force is set or the stored map
\* is empty, else exactly the listed ids whose token differs from the stored
\* one (ids new to the listing included, ids only in the stored map excluded).
C3_ChangedSet ==
    pc # "idle" =>
        /\ Range(changed) =
              IF force \/ oldSnapshots = NoMap THEN DOMAIN new_snapshots
              ELSE {c \in DOMAIN new_snapshots :
                        new_snapshots[c] # Get(oldSnapshots, c)}
        /\ Len(changed) = Cardinality(Range(changed))
\* a non-forced diff with an id new to the listing, an id only in the stored
\* map and an unchanged id
C3_Witness ==
    /\ pc # "idle" /\ ~force /\ oldSnapshots # NoMap
    /\ \E c \in Range(changed) : c \notin DOMAIN oldSnapshots
    /\ DOMAIN oldSnapshots \ DOMAIN new_snapshots # {}
    /\ DOMAIN new_snapshots \ Range(changed) # {}

\* C4 as stated: when a fetch raises, the stored version map, last_sync_utc and
\* playlist_tracks are as before the run, and a non-forced sync over the same
\* listing has every collection this run attempted in its changed set.
C4_AbortRetriesAllAttempted ==
    pc = "failed" =>
        /\ meta.playlist_snapshots = oldSnapshots
        /\ meta.last_sync_utc = metaLocal.last_sync_utc
        /\ pt = ptAtStart
        /\ Range(changed) \subseteq DiffSet(meta.playlist_snapshots, new_snapshots)
\* C4 amended: when a fetch raises, the stored version map, last_sync_utc and
\* playlist_tracks are as before the run; a non-forced sync over the same
\* listing has in its changed set every collection this run attempted whose
\* listed token differs from the stored one, which is every attempted
\* collection when this run was not forced.
C4_AbortKeepsState ==
    pc = "failed" =>
        /\ meta.playlist_snapshots = oldSnapshots
        /\ meta.last_sync_utc = metaLocal.last_sync_utc
        /\ pt = ptAtStart
        /\ ~force =>
             Range(changed) \subseteq DiffSet(meta.playlist_snapshots, new_snapshots)
        /\ force =>
             {c \in Range(changed) : new_snapshots[c] # Get(meta.playlist_snapshots, c)}
                 \subseteq DiffSet(meta.playlist_snapshots, new_snapshots)
\* a non-forced run over a populated table that fetched rows for one
\* collection and then failed on the next
C4_Witness ==
    /\ pc = "failed" /\ ~force
    /\ rows # <<>> /\ Len(fetchCalls) > 1
    /\ ptAtStart.exists /\ oldSnapshots # NoMap

\* C5: the version map, the timestamp and the scope flags are written only by
\* the last step of a sync, after the table write and the invalidation of that
\* run, and what is written is this run's new_snapshots, timestamp and flags.
C5_MetaCommittedLast ==
    [][ /\ ( \/ meta'.playlist_snapshots # meta.playlist_snapshots
             \/ meta'.last_sync_utc # meta.last_sync_utc
             \/ meta'.owned_only # meta.owned_only
             \/ meta'.include_liked_songs # meta.include_liked_songs )
           => (pc = "commit" /\ pc' = "done")
        /\ (pc' = "done" /\ pc # "done") =>
              /\ pc = "commit"
              /\ meta'.playlist_snapshots = new_snapshots
              /\ meta'.last_sync_utc = syncs
              /\ meta'.owned_only = owned_only
              /\ meta'.include_liked_songs = include_liked_songs
        /\ (pt' # pt \/ ~(derived \subseteq derived')) => pc = "playlists"
        /\ pc = "commit" => pc' = "done"
      ]_vars
\* a second sync that rewrote the table and then committed a different map
C5_Witness ==
    /\ pc = "done"
    /\ pt # ptAtStart
    /\ oldSnapshots # NoMap /\ oldSnapshots # new_snapshots
    /\ meta.playlist_snapshots = new_snapshots
    /\ DOMAIN oldSnapshots \ DOMAIN new_snapshots # {}

(***************************************************************************)
(* Playlist write-back: update_monthly_playlists, update_genre_split_-     *)
(* playlists and update_master_genre_playlists of the automation script    *)
(* (existing-playlist branch, one playlist per call here) and the          *)
(* standalone update_monthly_playlists of scripts/spotify_sync.py, while   *)
(* the user adds tracks to the same playlists by hand.                     *)
(***************************************************************************)
MaxCalls == 2        \* update calls per behaviour
MaxHumanAdds == 1    \* manual additions per behaviour
AddChunkSize == 1    \* _chunked(to_add, 50), scaled

UTracks == {"u1", "u2", "u3"}
\* URIs of the liked songs; u3 is in no desired list
liked_uris == {"u1", "u2"}
\* the desired lists: liked songs of a month / of a genre, deduplicated
DesiredLists == {<<"u1">>, <<"u2">>, <<"u1", "u2">>, <<"u2", "u1">>}
\* which function updates which playlist
KindsOf(p) ==
    IF p = "PM" THEN {"monthly", "standalone"}
    ELSE IF p = "PG" THEN {"genre_split"}
    ELSE IF p = "PY" THEN {"consolidate"}
    ELSE {"master"}
\* the automation script's functions read through get_playlist_tracks of
\* automation/sync.py (cached); the standalone script's does not cache
UsesCache(k) == k # "standalone"

\* get_playlist_tracks: the cached set, or the fetched set of URIs
GetPlaylistTracks(cache, rem, p, k, force_refresh) ==
    IF UsesCache(k) /\ cache[p].has /\ ~force_refresh
    THEN cache[p].uris
    ELSE Range(rem[p])
\* ... which a cached read stores under playlist_id
CacheAfterGet(cache, rem, p, k, force_refresh) ==
    IF UsesCache(k)
    THEN [cache EXCEPT ![p] = [has |-> TRUE,
                 uris |-> GetPlaylistTracks(cache, rem, p, k, force_refresh)]]
    ELSE cache

\* a faulty ToAdd: every desired track
ToAddAll(uris, alr) == uris
\* to_add = [u for u in track_uris if u not in already]
ToAdd(uris, alr) == SelectSeq(uris, LAMBDA u : u \notin alr)

\* _chunked: the first chunk and what follows it
FirstChunk(seq, n) == SubSeq(seq, 1, IF Len(seq) < n THEN Len(seq) ELSE n)
AfterFirstChunk(seq, n) == SubSeq(seq, (IF Len(seq) < n THEN Len(seq) ELSE n) + 1,
                                  Len(seq))

\* a faulty CacheAfterAdds: the entry is kept
CacheAfterAddsKept(cache, p, k) == cache
\* "if pid in _playlist_tracks_cache: del _playlist_tracks_cache[pid]"
CacheAfterAdds(cache, p, k) ==
    IF UsesCache(k) THEN [cache EXCEPT ![p] = NoEntry] ELSE cache

\* a faulty TracksToRemove: every track that does not match the genre
TracksToRemoveNotLikedToo(alr, uris) == {u \in alr : u \notin Range(uris)}
\* master genre: liked songs in the playlist that do not match the genre
TracksToRemove(alr, uris) == {u \in alr : u \in liked_uris /\ u \notin Range(uris)}
\* safe_remove_tracks_from_playlist, when the removal is carried out
AfterRemoval(items, gone) == SelectSeq(items, LAMBDA u : u \notin gone)

updLocals == <<ukind, upid, track_uris, already, to_add, added, removedItems,
               E0, raced, staleRead>>
updCounters == <<calls, humanAdds, humanAdded>>

\* the call starts and reads the playlist: already = get_playlist_tracks(sp, pid)
UpdateRead(k, p, uris) ==
    /\ upc = "idle"
    /\ calls < MaxCalls
    /\ k \in KindsOf(p)
    \* main() consolidates before any of the update functions runs
    /\ k = "consolidate" => prev = NoCall
    /\ LET got == GetPlaylistTracks(playlist_tracks_cache, remote, p, k, FALSE)
           removes == k = "master" /\ TracksToRemove(got, uris) # {}
       IN  /\ already' = got
           /\ playlist_tracks_cache' =
                  CacheAfterGet(playlist_tracks_cache, remote, p, k, FALSE)
           /\ staleRead' = (got # Range(remote[p]))
           /\ upc' = IF removes THEN "remove" ELSE "add"
           /\ to_add' = IF removes THEN <<>> ELSE ToAdd(uris, got)
    /\ ukind' = k /\ upid' = p /\ track_uris' = uris
    /\ E0' = remote[p]
    /\ added' = <<>> /\ removedItems' = {}
    /\ raced' = FALSE
    /\ calls' = calls + 1
    /\ UNCHANGED <<remote, prev, humanAdds, humanAdded>>
    /\ UNCHANGED otherThanUpdate

\* master genre, lines 582-611: remove the mismatching liked songs, then,
\* on success, drop the cache entry and read the playlist again
SafeRemove(success) ==
    /\ upc = "remove"
    /\ LET gone == TracksToRemove(already, track_uris)
           rem == IF success
                  THEN [remote EXCEPT ![upid] = AfterRemoval(@, gone)]
                  ELSE remote
           got == IF success THEN Range(rem[upid]) ELSE already
       IN  /\ removedItems' = gone
           /\ remote' = rem
           /\ playlist_tracks_cache' =
                  IF success
                  THEN CacheAfterGet(playlist_tracks_cache, rem, upid, ukind, TRUE)
                  ELSE playlist_tracks_cache
           /\ already' = got
           /\ to_add' = ToAdd(track_uris, got)
    /\ upc' = "add"
    /\ UNCHANGED <<ukind, upid, track_uris, added, E0, raced, staleRead, prev,
                   updCounters>>
    /\ UNCHANGED otherThanUpdate

\* one iteration of "for chunk in _chunked(to_add, 50): playlist_add_items"
AddChunk ==
    /\ upc = "add"
    /\ to_add # <<>>
    /\ remote' = [remote EXCEPT ![upid] = @ \o FirstChunk(to_add, AddChunkSize)]
    /\ added' = added \o FirstChunk(to_add, AddChunkSize)
    /\ to_add' = AfterFirstChunk(to_add, AddChunkSize)
    /\ UNCHANGED <<playlist_tracks_cache, upc, ukind, upid, track_uris, already,
                   removedItems, E0, raced, staleRead, prev, updCounters>>
    /\ UNCHANGED otherThanUpdate

\* api_call gives up on playlist_add_items and raises: the call is over
AddRaises ==
    /\ upc = "add"
    /\ to_add # <<>>
    /\ upc' = "failed"
    /\ UNCHANGED <<remote, playlist_tracks_cache, updLocals, prev, updCounters>>
    /\ UNCHANGED otherThanUpdate

\* after the loop: drop the cache entry when tracks were added, then update
\* the description; genre-split and master genre pass track_uris=None, which
\* reads the playlist through get_playlist_tracks unless the description
\* call fails first (described = FALSE)
FinishUpdate(described) ==
    /\ upc = "add"
    /\ to_add = <<>>
    /\ ukind # "consolidate"
    /\ playlist_tracks_cache' =
           IF added = <<>> THEN playlist_tracks_cache
           ELSE LET dropped == CacheAfterAdds(playlist_tracks_cache, upid, ukind)
                IN  IF ukind \in {"genre_split", "master"} /\ described
                    THEN CacheAfterGet(dropped, remote, upid, ukind, FALSE)
                    ELSE dropped
    /\ upc' = "done"
    /\ UNCHANGED <<remote, updLocals, prev, updCounters>>
    /\ UNCHANGED otherThanUpdate

\* "api_call(sp.user_playlist_unfollow, ...); _invalidate_playlist_cache()"
\* inside try/except: the whole cache is emptied when a deletion went
\* through, and left as it is when every deletion raised
CacheAfterUnfollow(cache, deleted) ==
    IF deleted THEN [p \in UpdPlaylists |-> NoEntry] ELSE cache

\* consolidate_old_monthly_playlists after its add loop: nothing is done
\* about the yearly playlist's cache entry; the monthly playlists of the
\* year are unfollowed (deleted = at least one unfollow succeeded)
UnfollowMonthly(deleted) ==
    /\ upc = "add"
    /\ to_add = <<>>
    /\ ukind = "consolidate"
    /\ playlist_tracks_cache' = CacheAfterUnfollow(playlist_tracks_cache, deleted)
    /\ upc' = "done"
    /\ UNCHANGED <<remote, updLocals, prev, updCounters>>
    /\ UNCHANGED otherThanUpdate

\* the call returns or has raised: its locals are gone
UpdateReturn ==
    /\ upc \in {"done", "failed"}
    /\ prev' = [kind |-> ukind, pid |-> upid, uris |-> track_uris,
                status |-> upc, added |-> added]
    /\ upc' = "idle"
    /\ ukind' = "none" /\ upid' = "none"
    /\ track_uris' = <<>>
    /\ already' = {}
    /\ to_add' = <<>>
    /\ added' = <<>>
    /\ removedItems' = {}
    /\ E0' = <<>>
    /\ raced' = FALSE /\ staleRead' = FALSE
    /\ UNCHANGED <<remote, playlist_tracks_cache, updCounters>>
    /\ UNCHANGED otherThanUpdate

\* the script ends; the next run is a new process with empty caches
ProcessExit ==
    /\ upc = "idle"
    /\ prev # NoCall
    /\ playlist_tracks_cache' = [p \in UpdPlaylists |-> NoEntry]
    /\ prev' = NoCall
    /\ UNCHANGED <<remote, upc, updLocals, updCounters>>
    /\ UNCHANGED otherThanUpdate

\* the user adds a track the playlist does not have yet (an addition just
\* after the call's last request is the same as one after its return)
HumanAdd(p, t) ==
    /\ humanAdds < MaxHumanAdds
    /\ upc \notin {"done", "failed"}
    /\ t \notin Range(remote[p])
    /\ remote' = [remote EXCEPT ![p] = Append(@, t)]
    /\ humanAdds' = humanAdds + 1
    /\ humanAdded' = humanAdded \cup {<<p, t>>}
    /\ raced' = (raced \/ (upc \in {"remove", "add"} /\ p = upid))
    /\ UNCHANGED <<playlist_tracks_cache, upc, ukind, upid, track_uris, already,
                   to_add, added, removedItems, E0, staleRead, prev, calls>>
    /\ UNCHANGED otherThanUpdate

InitUpdate == SyncInitial /\ UpdateInitial /\ LikedInitial /\ ApiInitial /\ PaginateInitial /\ ChunkInitial /\ MasterInitial /\ ServerInitial /\ TracksInitial /\ ArtistsInitial /\ MainInitial /\ MonthsInitial /\ WorkersInitial

NextUpdate ==
    \/ \E p \in UpdPlaylists, k \in {"monthly", "standalone", "genre_split",
                                    "master", "consolidate"},
          uris \in DesiredLists :
           UpdateRead(k, p, uris)
    \/ \E success \in BOOLEAN : SafeRemove(success)
    \/ AddChunk
    \/ AddRaises
    \/ \E described \in BOOLEAN : FinishUpdate(described)
    \/ \E deleted \in BOOLEAN : UnfollowMonthly(deleted)
    \/ UpdateReturn
    \/ ProcessExit
    \/ \E p \in UpdPlaylists, t \in UTracks : HumanAdd(p, t)

SpecUpdate == InitUpdate /\ [][NextUpdate]_vars


(***************************************************************************)
(* Claims about the playlist write-back (checked under SpecUpdate).        *)
(***************************************************************************)
NoDuplicates(seq) == Len(seq) = Cardinality(Range(seq))
Count(seq, x) == Cardinality({i \in 1..Len(seq) : seq[i] = x})
\* the call ran against the contents E it started with: what it read was
\* current and the user did not add to the playlist while it ran
Undisturbed == ~staleRead /\ ~raced
AddOnlyKinds == {"monthly", "standalone", "genre_split"}

C7_SecondCallAddsNothing ==
    (/\ upc \in {"add", "done"}
     /\ prev.status = "done"
     /\ prev.kind = ukind /\ prev.pid = upid /\ prev.uris = track_uris)
        => added = <<>> /\ to_add = <<>>

\* the first call added tracks, the second has run to its end
C7_Witness ==
    /\ upc = "done"
    /\ prev.status = "done"
    /\ prev.kind = ukind /\ prev.pid = upid /\ prev.uris = track_uris
    /\ UsesCache(ukind)
    /\ prev.added # <<>>
    /\ added = <<>>

\* C8: every track that was in the playlist when an update call (monthly,
\* genre-split or master genre) started is still in it when the call ends.
C8_NothingRemoved ==
    upc = "done" => Range(E0) \subseteq Range(remote[upid])

\* C9: a track the user added by hand is in its playlist exactly once: no
\* update call has removed it and none has added a second copy of it.
C9_HumanAddKeptOnce ==
    \A h \in humanAdded : Count(remote[h[1]], h[2]) = 1

(***************************************************************************)
(* sync_liked_songs of scripts/spotify_sync.py: the page loop with its     *)
(* checkpoint file, the save into playlist_tracks.parquet, and a process   *)
(* that can be interrupted and started again.                              *)
(***************************************************************************)
MaxSaved == 3        \* liked songs on the remote side
PageLimit == 1       \* limit=50 of current_user_saved_tracks, scaled
MaxInterrupts == 1   \* interruptions per behaviour
MaxLikedRuns == 2    \* sync_liked_songs calls per behaviour

\* a row of liked_tracks (added_at, track_name and track_uri follow track_id)
LikedRow(tid) == [playlist_id |-> LIKED_SONGS_PLAYLIST_ID, track_id |-> tid]
\* a row of another playlist already in the parquet file
OtherRow == [playlist_id |-> "A", track_id |-> 0]
\* what the file can hold when the job starts: absent, rows of a playlist,
\* and the liked songs of an earlier sync
PriorTables == {NoTable, Table(<<OtherRow>>), Table(<<OtherRow, LikedRow(1)>>)}

\* a faulty ReadCheckpoint: the checkpoint is ignored
ReadCheckpointZero(cp) == 0
\* a checkpoint file that is empty or does not hold an integer
UnreadableFile == [exists |-> TRUE, text |-> -1]
\* int(checkpoint_path.read_text().strip() or 0), 0 when that raises or the
\* file is absent; text -1 stands for an empty or unreadable file
ReadCheckpoint(cp) == IF cp.exists /\ cp.text >= 0 THEN cp.text ELSE 0

\* the rows appended for one page of items
PageRows(items) == [i \in 1..Len(items) |-> LikedRow(items[i])]
\* page.get("next"): there are items beyond this page
HasNext(saved, off) == off + PageLimit < Len(saved)

\* a faulty WrittenCheckpoint: the offset before it was advanced
WrittenCheckpointStale(off, items) == [exists |-> TRUE, text |-> off]
\* "offset += len(items)" then checkpoint_path.write_text(str(offset))
WrittenCheckpoint(off, items) == [exists |-> TRUE, text |-> off + Len(items)]

\* "Save to parquet": the frame written to playlist_tracks.parquet
SavedParquet(file, df, checkpointExists) ==
    IF file.exists
    THEN IF checkpointExists
         THEN Table(file.rows \o df)
         ELSE Table(RowsWhere(file.rows, RegularIds) \o df)
    ELSE Table(df)

RECURSIVE FetchedFrom(_, _)
\* liked_tracks of a process that runs the loop from off to its end
FetchedFrom(saved, off) ==
    IF SavedTracksPage(saved, off, PageLimit) = <<>> THEN <<>>
    ELSE PageRows(SavedTracksPage(saved, off, PageLimit))
           \o (IF HasNext(saved, off)
               THEN FetchedFrom(saved, off + Len(SavedTracksPage(saved, off, PageLimit)))
               ELSE <<>>)
\* the file after a run from no checkpoint that nothing interrupts (it has
\* written a checkpoint as soon as one page had items)
UninterruptedRun(file, saved) ==
    SavedParquet(file, FetchedFrom(saved, 0), saved # <<>>)

likedLocals == <<offset, liked_tracks, requested, resumedAt, checkpointAtStart,
                 parquetAtStart>>

InitLiked ==
    /\ SyncInitial /\ UpdateInitial /\ ApiInitial /\ PaginateInitial /\ ChunkInitial /\ MasterInitial /\ ServerInitial /\ TracksInitial /\ ArtistsInitial /\ MainInitial /\ MonthsInitial /\ WorkersInitial
    /\ savedTracks \in {[i \in 1..n |-> i] : n \in 0..MaxSaved}
    /\ parquet \in PriorTables
    /\ checkpoint \in {NoFile, UnreadableFile}
    /\ lpc = "idle"
    /\ offset = 0
    /\ liked_tracks = <<>>
    /\ requested = <<>>
    /\ parquet0 = parquet
    /\ interrupts = 0
    /\ resumedAt = 0
    /\ checkpointAtStart = NoFile
    /\ parquetAtStart = NoTable
    /\ likedRuns = 0

\* lines 395-404: read the checkpoint
LikedStart ==
    /\ lpc = "idle"
    /\ likedRuns < MaxLikedRuns
    /\ offset' = ReadCheckpoint(checkpoint)
    /\ resumedAt' = ReadCheckpoint(checkpoint)
    /\ checkpointAtStart' = checkpoint
    /\ parquetAtStart' = parquet
    /\ liked_tracks' = <<>>
    /\ requested' = <<>>
    /\ parquet0' = IF checkpoint.exists THEN parquet0 ELSE parquet
    /\ likedRuns' = likedRuns + 1
    /\ lpc' = "fetch"
    /\ UNCHANGED <<savedTracks, parquet, checkpoint, interrupts>>
    /\ UNCHANGED otherThanLiked

\* lines 406-438: one iteration of the page loop; written = FALSE when
\* writing the checkpoint raises ("except Exception: pass")
FetchPage(written) ==
    /\ lpc = "fetch"
    /\ LET items == SavedTracksPage(savedTracks, offset, PageLimit)
       IN  /\ requested' = Append(requested, offset)
           /\ IF items = <<>>
              THEN /\ lpc' = "save"
                   /\ UNCHANGED <<liked_tracks, offset, checkpoint>>
              ELSE /\ liked_tracks' = liked_tracks \o PageRows(items)
                   /\ offset' = offset + Len(items)
                   /\ checkpoint' = IF written
                                    THEN WrittenCheckpoint(offset, items)
                                    ELSE checkpoint
                   /\ lpc' = IF HasNext(savedTracks, offset) THEN "fetch" ELSE "save"
    /\ UNCHANGED <<savedTracks, parquet, parquet0, interrupts, resumedAt,
                   checkpointAtStart, parquetAtStart, likedRuns>>
    /\ UNCHANGED otherThanLiked

\* the job is killed or api_call raises before the end: the process and its
\* liked_tracks are gone, the files stay; torn = killed inside write_text,
\* which leaves the checkpoint file empty
Interrupt(torn) ==
    /\ lpc \in {"fetch", "save", "saved"}
    /\ interrupts < MaxInterrupts
    /\ torn => checkpoint.exists /\ lpc = "fetch"
    /\ checkpoint' = IF torn THEN UnreadableFile ELSE checkpoint
    /\ interrupts' = interrupts + 1
    /\ lpc' = "idle"
    /\ offset' = 0 /\ liked_tracks' = <<>> /\ requested' = <<>> /\ resumedAt' = 0
    /\ checkpointAtStart' = NoFile /\ parquetAtStart' = NoTable
    /\ UNCHANGED <<savedTracks, parquet, parquet0, likedRuns>>
    /\ UNCHANGED otherThanLiked

\* lines 443-463: save to parquet
SaveLiked ==
    /\ lpc = "save"
    /\ parquet' = SavedParquet(parquet, liked_tracks, checkpoint.exists)
    /\ lpc' = "saved"
    /\ UNCHANGED <<savedTracks, checkpoint, likedLocals, parquet0, interrupts,
                   likedRuns>>
    /\ UNCHANGED otherThanLiked

\* lines 464-469: "Sync complete - remove checkpoint"
ClearCheckpoint ==
    /\ lpc = "saved"
    /\ checkpoint' = NoFile
    /\ lpc' = "done"
    /\ UNCHANGED <<savedTracks, parquet, likedLocals, parquet0, interrupts,
                   likedRuns>>
    /\ UNCHANGED otherThanLiked

\* return liked_tracks
LikedReturn ==
    /\ lpc = "done"
    /\ lpc' = "idle"
    /\ offset' = 0 /\ liked_tracks' = <<>> /\ requested' = <<>> /\ resumedAt' = 0
    /\ checkpointAtStart' = NoFile /\ parquetAtStart' = NoTable
    /\ UNCHANGED <<savedTracks, parquet, checkpoint, parquet0, interrupts, likedRuns>>
    /\ UNCHANGED otherThanLiked

NextLiked ==
    \/ LikedStart
    \/ \E written \in BOOLEAN : FetchPage(written)
    \/ \E torn \in BOOLEAN : Interrupt(torn)
    \/ SaveLiked
    \/ ClearCheckpoint
    \/ LikedReturn

SpecLiked == InitLiked /\ [][NextLiked]_vars

(***************************************************************************)
(* Claims about sync_liked_songs (checked under SpecLiked).                *)
(***************************************************************************)
\* C10: when a run that resumed from a checkpoint written after some page
\* but the last has saved, the liked-songs rows of playlist_tracks are, in members and
\* order, those that an uninterrupted run from the same file would have
\* saved.
C10_ResumedEqualsUninterrupted ==
    (lpc = "done" /\ resumedAt > 0 /\ resumedAt < Len(savedTracks)) =>
        RowsOf(parquet, LIKED_SONGS_PLAYLIST_ID)
            = RowsOf(UninterruptedRun(parquet0, savedTracks), LIKED_SONGS_PLAYLIST_ID)

\* C11: a process that finds a readable checkpoint starts at its offset, and
\* the offsets it requests are that offset and the following page starts, in
\* order, each once, up to the last page: no offset before the checkpoint.
C11_ResumesAtCheckpoint ==
    lpc \in {"fetch", "save", "saved", "done"} =>
        /\ (lpc = "fetch" /\ requested = <<>> /\ checkpoint.exists
                /\ checkpoint.text >= 0)
               => (offset = checkpoint.text /\ resumedAt = checkpoint.text)
        /\ \A i \in 1..Len(requested) :
               requested[i] = resumedAt + (i - 1) * PageLimit
        /\ (lpc \in {"save", "saved", "done"}) =>
               /\ requested # <<>>
               /\ requested[Len(requested)] + PageLimit >= Len(savedTracks)

\* resumed after the first page of three: the pages at offsets 1 and 2 only
C11_Witness ==
    /\ lpc = "done"
    /\ resumedAt > 0
    /\ Len(requested) >= 2
    /\ requested[1] = resumedAt

\* C12: when sync_liked_songs has saved, playlist_tracks holds each liked
\* song at most once, whether or not the run had been interrupted and
\* resumed and whatever liked rows an earlier run had persisted.
C12_LikedRowsNotDuplicated ==
    lpc = "done" =>
        \A t \in 1..MaxSaved :
            Count(RowsOf(parquet, LIKED_SONGS_PLAYLIST_ID), LikedRow(t)) <= 1

C14_UnreadableIsNoCheckpoint ==
    (lpc \in {"saved", "done"} /\ checkpointAtStart = UnreadableFile) =>
        /\ requested[1] = 0
        /\ parquet = UninterruptedRun(parquetAtStart, savedTracks)

(***************************************************************************)
(* Further claims about Spotim8.sync (checked under SpecSync).             *)
(***************************************************************************)
\* C15: when the run before this one was interrupted after k >= 1 pages of
\* Liked Songs, this run's first request for Liked Songs is at the offset
\* after those k pages, not at zero.
C15_LikedFetchResumes ==
    (resumeExpected > 0 /\ likedOffsets # <<>>) =>
        likedOffsets[1] = resumeExpected * LikedPageLimit

\* C16: the step of a sync with a non-empty changed list that ends the
\* fetches leaves no file and no memo entry of tracks, track_artists,
\* artists, library_wide and liked_songs, keeps the playlists table and its
\* memo entry and does not remove playlist_tracks, so that a later read of
\* a derived table finds neither file nor memo entry and rebuilds it.
C16_DerivedInvalidated ==
    [][ (pc = "playlists" /\ pc' = "commit") =>
            /\ changed # <<>>
            /\ derived' \cap {"tracks", "track_artists", "artists", "library_wide",
                              "liked_songs"} = {}
            /\ memo' \cap {"tracks", "track_artists", "artists", "library_wide",
                           "liked_songs"} = {}
            /\ playlistsTable' /\ "playlists" \in memo'
            /\ pt.exists => pt'.exists
            /\ "playlist_tracks" \in memo => "playlist_tracks" \in memo'
      ]_vars

\* a sync with changes has just invalidated derived tables that had been
\* rebuilt, liked_songs included
C16_Witness ==
    /\ pc = "commit"
    /\ changed # <<>>
    /\ syncs = 2
    /\ pt.exists
    /\ derived = {} /\ memo = {"playlists", "playlist_tracks"}

\* C17: when a sync found no changed collection and is about to persist the
\* metadata, it has fetched nothing and no table derived from
\* playlist_tracks is left, on disk or in the memo.
C17_NoOpStillInvalidates ==
    (pc = "commit" /\ changed = <<>>) =>
        /\ fetchCalls = <<>>
        /\ derived \cap DerivedKeys = {}
        /\ memo \cap DerivedKeys = {}

(***************************************************************************)
(* api_call: retries with backoff around one remote operation.             *)
(***************************************************************************)
MaxApiCalls == 7        \* api_call calls of one process
MaxRetries == 3         \* largest max_retries argument
backoff_factor == 1     \* the default of the backoff_factor argument

Operations == {"current_user_saved_tracks", "playlist_add_items"}
\* os.environ SPOTIFY_API_DELAY in hundredths of a second; 15 is the default
BaseDelays == {0, 15}
\* random.uniform(0, 1), in whole seconds
Jitters == {0, 1}

\* an exception of the wrapped operation, by the attributes api_call reads:
\* its class, http_status (0: none), the Retry-After header in seconds
\* (0: no header) and whether str(e).lower() contains "rate limit"
Exc(type, status, retry, text) ==
    [type |-> type, http_status |-> status, retry_after |-> retry,
     rate_limit_text |-> text]

Errors ==
    {Exc("SpotifyException", 429, 0, FALSE),
     Exc("SpotifyException", 429, 5, FALSE),
     Exc("SpotifyException", 503, 0, FALSE),
     Exc("SpotifyException", 503, 5, FALSE),
     Exc("SpotifyException", 404, 0, FALSE),
     Exc("Exception", 0, 0, TRUE),
     Exc("ConnectionError", 0, 0, FALSE),
     Exc("Timeout", 0, 0, FALSE)}

RuntimeError(n, op) == [type |-> "RuntimeError", attempts |-> n, operation |-> op]

is_rate(e) == e.http_status = 429 \/ e.retry_after # 0 \/ e.rate_limit_text
is_transient(e) == e.type \in {"ConnectionError", "Timeout"}

\* a faulty Retryable: every error is retried
RetryableAlways(e) == TRUE

\* `if is_rate or is_transient:`
Retryable(e) == is_rate(e) \/ is_transient(e)

RECURSIVE GCD(_, _)
GCD(a, b) == IF b = 0 THEN a ELSE GCD(b, a % b)

Reduce(n, d) == Ratio(n \div GCD(n, d), d \div GCD(n, d))
Times(m, n, d) == Reduce(m.num * n, m.den * d)         \* m * (n / d)
Less(a, b) == a.num * b.den < b.num * a.den
RATE_BACKOFF_MAX == Ratio(16, 1)

\* a faulty MultAfterSuccess: no decay
MultNotDecayed(m) == m

\* _RATE_BACKOFF_MULTIPLIER = max(1.0, _RATE_BACKOFF_MULTIPLIER * 0.90)
MultAfterSuccess(m) ==
    IF Less(Ratio(1, 1), Times(m, 9, 10)) THEN Times(m, 9, 10) ELSE Ratio(1, 1)

\* a faulty MultAfterFailure: the doubling without the cap
MultDoubled(m) == Times(m, 2, 1)

\* _RATE_BACKOFF_MULTIPLIER = min(_RATE_BACKOFF_MAX, _RATE_BACKOFF_MULTIPLIER * 2.0)
MultAfterFailure(m) ==
    IF Less(Times(m, 2, 1), RATE_BACKOFF_MAX) THEN Times(m, 2, 1)
    ELSE RATE_BACKOFF_MAX

\* a / b < c / d for ratios of any size, by integer parts and remainders
RECURSIVE Below(_, _)
Below(a, b) ==
    IF a.num \div a.den # b.num \div b.den
    THEN a.num \div a.den < b.num \div b.den
    ELSE IF b.num % b.den = 0 THEN FALSE
    ELSE IF a.num % a.den = 0 THEN TRUE
    ELSE Below(Ratio(b.den, b.num % b.den), Ratio(a.den, a.num % a.den))

\* delay = base_delay * _RATE_BACKOFF_MULTIPLIER, hundredths of a second
EffectiveDelay(base_delay, m) == Reduce(base_delay * m.num, m.den)

RECURSIVE Pow2(_)
Pow2(n) == IF n = 0 THEN 1 ELSE 2 * Pow2(n - 1)

\* wait = backoff_factor * (2 ** attempt) + random.uniform(0, 1), raised to
\* int(retry_after) when the error carries one
Wait(e, att, jitter) ==
    LET wait == backoff_factor * Pow2(att) + jitter IN
    IF e.retry_after # 0 /\ e.retry_after > wait THEN e.retry_after ELSE wait

\* a faulty InRange: one iteration more than max_retries
InRangeOneMore(att, mr) == att <= mr

\* `for attempt in range(max_retries)` has an iteration for att
InRange(att, mr) == att < mr

ApiCall(op, mr) ==
    /\ apc = "idle"
    /\ apiCalls < MaxApiCalls
    /\ apc' = "loop"
    /\ fn' = op
    /\ max_retries' = mr
    /\ attempt' = 0
    /\ invocations' = 0
    /\ thrown' = NoError
    /\ sleeps' = <<>>
    /\ outcome' = NoOutcome
    /\ apiCalls' = apiCalls + 1
    /\ UNCHANGED RATE_BACKOFF_MULTIPLIER
    /\ UNCHANGED SPOTIFY_API_DELAY
    /\ UNCHANGED otherThanApi

\* fn returns: pace, decay the multiplier, return the result
InvokeReturns ==
    LET base_delay == SPOTIFY_API_DELAY IN
    /\ apc = "loop"
    /\ InRange(attempt, max_retries)
    /\ invocations' = invocations + 1
    /\ thrown' = NoError
    /\ sleeps' = IF base_delay > 0
                 THEN Append(sleeps, [kind |-> "delay", base |-> base_delay,
                                      mult |-> RATE_BACKOFF_MULTIPLIER])
                 ELSE sleeps
    /\ RATE_BACKOFF_MULTIPLIER' = MultAfterSuccess(RATE_BACKOFF_MULTIPLIER)
    /\ outcome' = [kind |-> "returned", result |-> invocations + 1]
    /\ apc' = "returned"
    /\ UNCHANGED <<fn, max_retries, attempt, apiCalls>>
    /\ UNCHANGED SPOTIFY_API_DELAY
    /\ UNCHANGED otherThanApi

\* fn raises a rate-limit or transient error: sleep, grow the multiplier,
\* continue with the next attempt
InvokeRaisesRetryable(e, jitter) ==
    /\ apc = "loop"
    /\ InRange(attempt, max_retries)
    /\ Retryable(e)
    /\ invocations' = invocations + 1
    /\ thrown' = e
    /\ sleeps' = Append(sleeps, [kind |-> "wait", secs |-> Wait(e, attempt, jitter)])
    /\ RATE_BACKOFF_MULTIPLIER' = MultAfterFailure(RATE_BACKOFF_MULTIPLIER)
    /\ attempt' = attempt + 1
    /\ UNCHANGED <<apc, fn, max_retries, outcome, apiCalls>>
    /\ UNCHANGED SPOTIFY_API_DELAY
    /\ UNCHANGED otherThanApi

\* fn raises any other error: the bare `raise`
InvokeRaisesOther(e) ==
    /\ apc = "loop"
    /\ InRange(attempt, max_retries)
    /\ ~Retryable(e)
    /\ invocations' = invocations + 1
    /\ thrown' = e
    /\ outcome' = [kind |-> "raised", error |-> e]
    /\ apc' = "raised"
    /\ UNCHANGED <<RATE_BACKOFF_MULTIPLIER, fn, max_retries, attempt, sleeps,
                   apiCalls>>
    /\ UNCHANGED SPOTIFY_API_DELAY
    /\ UNCHANGED otherThanApi

\* the loop ran out: raise RuntimeError(f"API call failed after
\* {max_retries} attempts: {fn}")
Exhausted ==
    /\ apc = "loop"
    /\ ~InRange(attempt, max_retries)
    /\ outcome' = [kind |-> "raised", error |-> RuntimeError(max_retries, fn)]
    /\ apc' = "raised"
    /\ UNCHANGED <<RATE_BACKOFF_MULTIPLIER, fn, max_retries, attempt,
                   invocations, thrown, sleeps, apiCalls>>
    /\ UNCHANGED SPOTIFY_API_DELAY
    /\ UNCHANGED otherThanApi

\* the caller has the result or the exception; the frame is gone
ApiReturn ==
    /\ apc \in {"returned", "raised"}
    /\ apc' = "idle"
    /\ fn' = "none"
    /\ max_retries' = 0
    /\ attempt' = 0
    /\ invocations' = 0
    /\ thrown' = NoError
    /\ sleeps' = <<>>
    /\ outcome' = NoOutcome
    /\ UNCHANGED <<RATE_BACKOFF_MULTIPLIER, apiCalls>>
    /\ UNCHANGED SPOTIFY_API_DELAY
    /\ UNCHANGED otherThanApi

InitApi ==
    /\ SyncInitial /\ UpdateInitial /\ LikedInitial /\ PaginateInitial /\ ChunkInitial /\ MasterInitial /\ ServerInitial /\ TracksInitial /\ ArtistsInitial /\ MainInitial /\ MonthsInitial /\ WorkersInitial
    /\ RATE_BACKOFF_MULTIPLIER = Ratio(1, 1)
    /\ apc = "idle"
    /\ fn = "none"
    /\ max_retries = 0
    /\ attempt = 0
    /\ invocations = 0
    /\ thrown = NoError
    /\ sleeps = <<>>
    /\ outcome = NoOutcome
    /\ apiCalls = 0
    /\ SPOTIFY_API_DELAY \in BaseDelays

NextApi ==
    \/ \E op \in Operations, mr \in 0..MaxRetries : ApiCall(op, mr)
    \/ InvokeReturns
    \/ \E e \in Errors, jitter \in Jitters : InvokeRaisesRetryable(e, jitter)
    \/ \E e \in Errors : InvokeRaisesOther(e)
    \/ Exhausted
    \/ ApiReturn

SpecApi == InitApi /\ [][NextApi]_vars

\* C18: api_call calls the operation at most max_retries times; when it
\* returns, it returns the result of the first call that succeeded, which is
\* the last call it made; when every attempt failed with a retryable error
\* it raises a RuntimeError carrying the operation and max_retries, after
\* exactly max_retries calls.
C18_RetriesBounded ==
    /\ invocations <= max_retries
    /\ apc = "returned" =>
           /\ outcome = [kind |-> "returned", result |-> invocations]
           /\ thrown = NoError
           /\ invocations = attempt + 1
    /\ (apc = "raised" /\ (invocations = 0 \/ (thrown # NoError /\ Retryable(thrown)))) =>
           /\ outcome = [kind |-> "raised", error |-> RuntimeError(max_retries, fn)]
           /\ invocations = max_retries
           /\ fn \in Operations

\* every attempt of a call with three attempts failed with a retryable error
C18_Witness ==
    /\ apc = "raised"
    /\ max_retries = MaxRetries
    /\ invocations = MaxRetries
    /\ outcome.error.type = "RuntimeError"

\* C19 as stated: an error of the operation that is not a rate-limit
\* response (status 429 or a message saying "rate limit") and not a
\* connection or timeout error ends api_call on that attempt with that error,
\* without a sleep, and leaves the multiplier as it was.
C19_AsStated ==
    [][ (/\ invocations' = invocations + 1
         /\ thrown' # NoError
         /\ ~(thrown'.http_status = 429 \/ thrown'.rate_limit_text)
         /\ thrown'.type \notin {"ConnectionError", "Timeout"}) =>
            /\ apc' = "raised"
            /\ outcome' = [kind |-> "raised", error |-> thrown']
            /\ sleeps' = sleeps
            /\ RATE_BACKOFF_MULTIPLIER' = RATE_BACKOFF_MULTIPLIER
      ]_vars

\* C19: an error of the operation whose status is not 429, that carries no
\* Retry-After value, whose message does not say "rate limit" and that is
\* not a connection or timeout error ends api_call on that attempt with that
\* error: no sleep, the multiplier as it was, and no call of the operation
\* after it.
C19_OtherErrorsReraised ==
    [][ /\ (/\ invocations' = invocations + 1
            /\ thrown' # NoError
            /\ thrown'.http_status # 429
            /\ thrown'.retry_after = 0
            /\ ~thrown'.rate_limit_text
            /\ thrown'.type \notin {"ConnectionError", "Timeout"}) =>
               /\ apc' = "raised"
               /\ outcome' = [kind |-> "raised", error |-> thrown']
               /\ sleeps' = sleeps
               /\ RATE_BACKOFF_MULTIPLIER' = RATE_BACKOFF_MULTIPLIER
        /\ apc = "raised" => (apc' = "idle" /\ invocations' = 0)
      ]_vars

\* a 404 on the second attempt, after a retried error had doubled the
\* multiplier, was re-raised
C19_Witness ==
    /\ apc = "raised"
    /\ attempt = 1
    /\ invocations = 2
    /\ thrown = Exc("SpotifyException", 404, 0, FALSE)
    /\ outcome = [kind |-> "raised", error |-> thrown]
    /\ Len(sleeps) = 1
    /\ RATE_BACKOFF_MULTIPLIER = Ratio(2, 1)

\* C20: the multiplier starts and stays within [1, 16]; a call of the
\* operation that returns sets it to max(1, m * 9/10) and one that fails with
\* a retried error sets it to min(16, m * 2).
C20_MultiplierWithinRange ==
    /\ RATE_BACKOFF_MULTIPLIER.den <= RATE_BACKOFF_MULTIPLIER.num
    /\ RATE_BACKOFF_MULTIPLIER.num <= 16 * RATE_BACKOFF_MULTIPLIER.den
    /\ [][ LET m == RATE_BACKOFF_MULTIPLIER
               decayed == Reduce(9 * m.num, 10 * m.den)
               doubled == Reduce(2 * m.num, m.den)
           IN  /\ RATE_BACKOFF_MULTIPLIER'.den <= RATE_BACKOFF_MULTIPLIER'.num
               /\ RATE_BACKOFF_MULTIPLIER'.num <= 16 * RATE_BACKOFF_MULTIPLIER'.den
               /\ (apc = "loop" /\ apc' = "returned") =>
                      RATE_BACKOFF_MULTIPLIER' =
                          IF decayed.num > decayed.den THEN decayed ELSE Ratio(1, 1)
               /\ (apc = "loop" /\ attempt' = attempt + 1) =>
                      RATE_BACKOFF_MULTIPLIER' =
                          IF doubled.num < 16 * doubled.den THEN doubled
                          ELSE Ratio(16, 1)
         ]_vars

\* the cap has acted: a fifth retried failure in a row left the multiplier
\* at 16
C20_Witness ==
    /\ RATE_BACKOFF_MULTIPLIER = Ratio(16, 1)
    /\ apiCalls = 2
    /\ attempt = 2
    /\ Len(sleeps) = 2
    /\ max_retries = MaxRetries

\* C21 as stated: whatever the base delay, a retried failure makes the
\* effective delay (base delay * multiplier) strictly larger unless the
\* multiplier is at its cap, and a success makes it strictly smaller unless
\* the multiplier is at its floor.
C21_AsStated ==
    [][ LET before == EffectiveDelay(SPOTIFY_API_DELAY, RATE_BACKOFF_MULTIPLIER)
            after == EffectiveDelay(SPOTIFY_API_DELAY, RATE_BACKOFF_MULTIPLIER')
        IN  /\ (apc = "loop" /\ attempt' = attempt + 1
                  /\ RATE_BACKOFF_MULTIPLIER # RATE_BACKOFF_MAX) => Below(before, after)
            /\ (apc = "loop" /\ apc' = "returned"
                  /\ RATE_BACKOFF_MULTIPLIER # Ratio(1, 1)) => Below(after, before)
      ]_vars

\* C21: with a positive base delay, a retried failure makes the effective
\* delay (base delay * multiplier) strictly larger, never above 16 * base
\* delay, until the multiplier is at its cap, where the delay stays at
\* 16 * base delay; a success makes it strictly smaller, never below the base
\* delay, until the multiplier is at its floor, where the delay stays at the
\* base delay.
C21_DelayMonotone ==
    [][ LET base == Ratio(SPOTIFY_API_DELAY, 1)
            cap == Ratio(16 * SPOTIFY_API_DELAY, 1)
            before == EffectiveDelay(SPOTIFY_API_DELAY, RATE_BACKOFF_MULTIPLIER)
            after == EffectiveDelay(SPOTIFY_API_DELAY, RATE_BACKOFF_MULTIPLIER')
        IN  SPOTIFY_API_DELAY > 0 =>
            /\ (apc = "loop" /\ attempt' = attempt + 1) =>
                   IF RATE_BACKOFF_MULTIPLIER # RATE_BACKOFF_MAX
                   THEN Below(before, after) /\ ~Below(cap, after)
                   ELSE after = cap /\ before = cap
            /\ (apc = "loop" /\ apc' = "returned") =>
                   IF RATE_BACKOFF_MULTIPLIER # Ratio(1, 1)
                   THEN Below(after, before) /\ ~Below(after, base)
                   ELSE after = base /\ before = base
      ]_vars

\* successes in a row have brought the delay from above the base delay down
\* to the floor: the last pacing sleep was longer than the base delay and the
\* multiplier is 1 again
C21_Witness ==
    /\ SPOTIFY_API_DELAY > 0
    /\ apc = "returned"
    /\ RATE_BACKOFF_MULTIPLIER = Ratio(1, 1)
    /\ sleeps # <<>>
    /\ sleeps[Len(sleeps)].kind = "delay"
    /\ sleeps[Len(sleeps)].mult.num > sleeps[Len(sleeps)].mult.den

(***************************************************************************)
(* Spotim8._paginate: accumulate the items of the first page and of every  *)
(* page reached through the next cursors.                                  *)
(***************************************************************************)
MaxPages == 3           \* cursors of the remote listing
MaxNextCalls == 4       \* sp.next calls of one _paginate call

\* the first n items of the page at cursor c, named after it
ItemList(c, n) == [i \in 1..n |-> 10 * c + i]

\* the listings the remote service can hold: up to two items and any next
\* cursor (0: no "next") per page, cursor cycles included
PageTables ==
    {[c \in 1..MaxPages |-> [items |-> ItemList(c, shape[c].n), next |-> shape[c].next]] :
        shape \in [1..MaxPages -> [n : 0..2, next : 0..MaxPages]]}

\* page.get(item_key, [])
PageItems(p) == p.items

\* a faulty Extended: the new page's items put in front
ExtendedInFront(acc, p) == PageItems(p) \o acc

\* items.extend(page.get(item_key, []))
Extended(acc, p) == acc \o PageItems(p)

\* sp.next(page): the page at the page's next cursor
SpNext(table, p) == table[p.next]

\* items = list(first_page.get(item_key, [])); page = first_page
PaginateStart ==
    /\ pagpc = "idle"
    /\ pagpc' = "loop"
    /\ first_page' = pagTable[1]
    /\ pagPage' = pagTable[1]
    /\ pagItems' = PageItems(pagTable[1])
    /\ nextCalls' = <<>>
    /\ UNCHANGED pagTable
    /\ UNCHANGED otherThanPaginate

\* one iteration of `while page.get("next")`
NextPage ==
    /\ pagpc = "loop"
    /\ pagPage.next # 0
    /\ Len(nextCalls) < MaxNextCalls
    /\ nextCalls' = Append(nextCalls, pagPage.next)
    /\ pagPage' = SpNext(pagTable, pagPage)
    /\ pagItems' = Extended(pagItems, SpNext(pagTable, pagPage))
    /\ UNCHANGED <<pagTable, pagpc, first_page>>
    /\ UNCHANGED otherThanPaginate

\* rate_limited_call raises: _paginate has no handler
NextPageRaises ==
    /\ pagpc = "loop"
    /\ pagPage.next # 0
    /\ Len(nextCalls) < MaxNextCalls
    /\ nextCalls' = Append(nextCalls, pagPage.next)
    /\ pagpc' = "failed"
    /\ UNCHANGED <<pagTable, first_page, pagPage, pagItems>>
    /\ UNCHANGED otherThanPaginate

\* page.get("next") is falsy: return items
PaginateReturn ==
    /\ pagpc = "loop"
    /\ pagPage.next = 0
    /\ pagpc' = "done"
    /\ UNCHANGED <<pagTable, first_page, pagPage, pagItems, nextCalls>>
    /\ UNCHANGED otherThanPaginate

\* the caller has the list or the exception
PaginateEnd ==
    /\ pagpc \in {"done", "failed"}
    /\ pagpc' = "idle"
    /\ first_page' = EmptyPage
    /\ pagPage' = EmptyPage
    /\ pagItems' = <<>>
    /\ nextCalls' = <<>>
    /\ UNCHANGED pagTable
    /\ UNCHANGED otherThanPaginate

InitPaginate ==
    /\ SyncInitial /\ UpdateInitial /\ LikedInitial /\ ApiInitial /\ ChunkInitial /\ MasterInitial /\ ServerInitial /\ TracksInitial /\ ArtistsInitial /\ MainInitial /\ MonthsInitial /\ WorkersInitial
    /\ pagTable \in PageTables
    /\ pagpc = "idle"
    /\ first_page = EmptyPage
    /\ pagPage = EmptyPage
    /\ pagItems = <<>>
    /\ nextCalls = <<>>

NextPaginate ==
    \/ PaginateStart
    \/ NextPage
    \/ NextPageRaises
    \/ PaginateReturn
    \/ PaginateEnd

SpecPaginate == InitPaginate /\ [][NextPaginate]_vars

\* the cursors visited from cursor c, at most fuel of them
RECURSIVE CursorChain(_, _, _)
CursorChain(table, c, fuel) ==
    IF c = 0 \/ fuel = 0 THEN <<>>
    ELSE <<c>> \o CursorChain(table, table[c].next, fuel - 1)

RECURSIVE ItemsAlong(_, _)
ItemsAlong(table, chain) ==
    IF chain = <<>> THEN <<>>
    ELSE table[Head(chain)].items \o ItemsAlong(table, Tail(chain))

\* C22: while _paginate runs on a listing whose cursor chain is finite, the
\* next-page calls made so far are the first cursors of the chain, one call
\* each and in chain order, and the items gathered are those of the pages
\* seen so far in that order; when it returns, every cursor of the chain has
\* been requested exactly once, the last page has no next cursor and the
\* result is the items of the first page followed by those of every later
\* page. The number of calls never exceeds the length of the chain.
C22_PaginateFollowsChain ==
    LET chain == CursorChain(pagTable, 1, MaxPages + 1)
        seen == SubSeq(chain, 1, Len(nextCalls) + 1)
    IN  (pagpc \in {"loop", "done"} /\ Len(chain) <= MaxPages) =>
            /\ Len(nextCalls) < Len(chain)
            /\ nextCalls = Tail(seen)
            /\ pagItems = ItemsAlong(pagTable, seen)
            /\ pagpc = "done" =>
                   /\ seen = chain
                   /\ pagPage.next = 0
                   /\ pagPage = pagTable[chain[Len(chain)]]

\* three pages in the cursor order 1, 3, 2, each with items, were gathered
C22_Witness ==
    /\ pagpc = "done"
    /\ nextCalls = <<3, 2>>
    /\ pagItems = <<11, 31, 32, 21>>

(***************************************************************************)
(* _chunked(seq, n) and the loop that sends each chunk.                    *)
(***************************************************************************)
MaxToAdd == 101         \* longest list handed to _chunked

\* the files with playlist-update functions and the n each passes
Scripts == {"automation/playlist_update.py", "spotify_sync.py", "sync.py",
            "sync_and_update.py"}
ChunkArg(file) == IF file = "sync_and_update.py" THEN 100 ELSE 50

\* a faulty Chunk: the slice runs one item too far
ChunkOneMore(seq, i, n) ==
    SubSeq(seq, i + 1, IF i + n + 1 < Len(seq) THEN i + n + 1 ELSE Len(seq))

\* seq[i:i+n]
Chunk(seq, i, n) ==
    SubSeq(seq, i + 1, IF i + n < Len(seq) THEN i + n ELSE Len(seq))

\* the update function reaches its add loop with a list of len items
ChunkStart(file, len) ==
    /\ cpc = "idle"
    /\ cpc' = "loop"
    /\ script' = file
    /\ chSeq' = [k \in 1..len |-> k]
    /\ chN' = ChunkArg(file)
    /\ chI' = 0
    /\ addCalls' = <<>>
    /\ UNCHANGED otherThanChunk

\* one iteration of `for i in range(0, len(seq), n)`: yield seq[i:i+n], and
\* the caller sends it
SendChunk ==
    /\ cpc = "loop"
    /\ chI < Len(chSeq)
    /\ addCalls' = Append(addCalls, Chunk(chSeq, chI, chN))
    /\ chI' = chI + chN
    /\ UNCHANGED <<script, cpc, chSeq, chN>>
    /\ UNCHANGED otherThanChunk

\* the add call raises: the update function has no handler around the loop
SendChunkRaises ==
    /\ cpc = "loop"
    /\ chI < Len(chSeq)
    /\ addCalls' = Append(addCalls, Chunk(chSeq, chI, chN))
    /\ cpc' = "failed"
    /\ UNCHANGED <<script, chSeq, chN, chI>>
    /\ UNCHANGED otherThanChunk

\* range(0, len(seq), n) is exhausted
ChunkDone ==
    /\ cpc = "loop"
    /\ chI >= Len(chSeq)
    /\ cpc' = "done"
    /\ UNCHANGED <<script, chSeq, chN, chI, addCalls>>
    /\ UNCHANGED otherThanChunk

ChunkEnd ==
    /\ cpc \in {"done", "failed"}
    /\ cpc' = "idle"
    /\ script' = "none"
    /\ chSeq' = <<>>
    /\ chN' = 0
    /\ chI' = 0
    /\ addCalls' = <<>>
    /\ UNCHANGED otherThanChunk

InitChunk ==
    /\ SyncInitial /\ UpdateInitial /\ LikedInitial /\ ApiInitial /\ PaginateInitial /\ MasterInitial /\ ServerInitial /\ TracksInitial /\ ArtistsInitial /\ MainInitial /\ MonthsInitial /\ WorkersInitial
    /\ ChunkInitial

NextChunk ==
    \/ \E file \in Scripts, len \in 0..MaxToAdd : ChunkStart(file, len)
    \/ SendChunk
    \/ SendChunkRaises
    \/ ChunkDone
    \/ ChunkEnd

SpecChunk == InitChunk /\ [][NextChunk]_vars

RECURSIVE Flattened(_)
Flattened(batches) ==
    IF batches = <<>> THEN <<>> ELSE Head(batches) \o Flattened(Tail(batches))

\* C23 as stated: every add call of every playlist-update function carries
\* between 1 and 50 items, and when the loop has ended the batches in call
\* order make up the list.
C23_AsStated ==
    /\ \A k \in 1..Len(addCalls) : Len(addCalls[k]) >= 1 /\ Len(addCalls[k]) <= 50
    /\ cpc = "done" => Flattened(addCalls) = chSeq

\* C23: every add call carries at least 1 item and at most 50, at most 100
\* in update_playlists of sync_and_update.py; the batches sent so far, in
\* call order, are a prefix of the list, and when the loop has ended they
\* make up the list.
C23_BatchesBounded ==
    /\ \A k \in 1..Len(addCalls) :
           /\ Len(addCalls[k]) >= 1
           /\ Len(addCalls[k]) <= (IF script = "sync_and_update.py" THEN 100 ELSE 50)
    /\ Len(Flattened(addCalls)) <= Len(chSeq)
    /\ Flattened(addCalls) = SubSeq(chSeq, 1, Len(Flattened(addCalls)))
    /\ cpc = "done" => Flattened(addCalls) = chSeq

\* 101 items were sent from playlist_update.py as batches of 50, 50 and 1
C23_Witness ==
    /\ cpc = "done"
    /\ script = "automation/playlist_update.py"
    /\ Len(chSeq) = 101
    /\ Len(addCalls) = 3
    /\ Len(addCalls[3]) = 1

\* C24: in a sync the fetches made so far are the first entries of this
\* list: Liked Songs, when it is in the changed list, then the other
\* changed collections in the order of the remote listing, each entry once;
\* when the sync reaches the metadata update it has made all of them.
C24_LikedFirstThenListingOrder ==
    LET expected ==
            (IF LIKED_SONGS_PLAYLIST_ID \in Range(changed)
             THEN <<LIKED_SONGS_PLAYLIST_ID>> ELSE <<>>)
            \o Filter(ListingOrder, Range(changed) \cap RegularIds)
    IN  pc \in {"liked", "playlists", "commit", "done", "failed"} =>
            /\ Len(fetchCalls) <= Len(expected)
            /\ fetchCalls = SubSeq(expected, 1, Len(fetchCalls))
            /\ pc \in {"commit", "done"} => fetchCalls = expected

\* Liked Songs and both playlists had changed: Liked Songs was fetched
\* first, then B and A as the remote service lists them
C24_Witness ==
    /\ pc = "commit"
    /\ fetchCalls = <<LIKED_SONGS_PLAYLIST_ID, "B", "A">>

\* C25: whenever no sync is running, the playlist_tracks table has at most
\* one row for each pair of playlist_id and track_id.
C25_PairUnique ==
    pc \in {"idle", "done"} =>
        \A i, j \in 1..Len(pt.rows) :
            (/\ pt.rows[i].playlist_id = pt.rows[j].playlist_id
             /\ pt.rows[i].track_id = pt.rows[j].track_id) => i = j

(***************************************************************************)
(* update_master_genre_playlists: per selected genre, remove the liked     *)
(* songs that do not match, then add the matching ones that are missing.   *)
(***************************************************************************)
MaxMasterRuns == 1      \* runs of update_master_genre_playlists

LikedList == <<"u1", "u2">>          \* the list liked_uris
GenreOrder == <<"g1", "g2">>         \* genre_counts.most_common order
\* the contents a master playlist can start with: up to two URIs
StartContents ==
    {<<>>} \cup {<<u>> : u \in UTracks}
           \cup {<<u, v>> : u \in UTracks, v \in UTracks}

\* selected: the genres that enough liked songs carry (threshold scaled to 1)
SelectedGenres(u2g) ==
    SelectSeq(GenreOrder, LAMBDA g : \E u \in DOMAIN u2g : g \in u2g[u])

\* [u for u in liked_uris if genre in uri_to_genres.get(u, [])]
ShouldBeIn(u2g, genre) == SelectSeq(LikedList, LAMBDA u : genre \in u2g[u])

\* a faulty RemovalFlags: validation switched off
RemovalFlagsNoValidation == [create_backup |-> TRUE, validate_after |-> FALSE]

\* the keyword arguments of the safe_remove_tracks_from_playlist call
RemovalFlags == [create_backup |-> TRUE, validate_after |-> TRUE]

\* the backup safe_remove_tracks_from_playlist makes before it removes
BackupFile(pid, n) == <<"backup", pid, n>>

masterLocals == <<selected, genreIdx, already_in_playlist>>

\* lines 440-567: load the tables, classify, select the genres
MasterStart ==
    /\ mpc = "idle"
    /\ masterRuns < MaxMasterRuns
    /\ masterRuns' = masterRuns + 1
    /\ selected' = SelectedGenres(uri_to_genres)
    /\ genreIdx' = 1
    /\ already_in_playlist' = {}
    /\ removeCalls' = <<>>
    /\ reports' = <<>>
    /\ mpc' = "loop"
    /\ UNCHANGED <<genrePlaylists, uri_to_genres>>
    /\ UNCHANGED otherThanMaster

\* lines 579-589 with nothing to remove
GenreKeepsAll ==
    /\ mpc = "loop"
    /\ genreIdx <= Len(selected)
    /\ LET pid == selected[genreIdx]
           got == Range(genrePlaylists[pid])
       IN  /\ TracksToRemove(got, ShouldBeIn(uri_to_genres, pid)) = {}
           /\ already_in_playlist' = got
    /\ mpc' = "add"
    /\ UNCHANGED <<genrePlaylists, uri_to_genres, selected, genreIdx, removeCalls,
                   reports, masterRuns>>
    /\ UNCHANGED otherThanMaster

\* lines 579-607: the removal call; success = FALSE is a failed
\* verification, after which the URIs in kept are still in the playlist
GenreRemove(success, kept) ==
    /\ mpc = "loop"
    /\ genreIdx <= Len(selected)
    /\ LET pid == selected[genreIdx]
           got == Range(genrePlaylists[pid])
           tracks_to_remove == TracksToRemove(got, ShouldBeIn(uri_to_genres, pid))
           backup_file == BackupFile(pid, Len(removeCalls) + 1)
           after == AfterRemoval(genrePlaylists[pid], tracks_to_remove \ kept)
       IN  /\ tracks_to_remove # {}
           /\ kept \subseteq tracks_to_remove
           /\ success <=> kept = {}
           /\ removeCalls' = Append(removeCalls,
                  [pid |-> pid, tracks |-> tracks_to_remove,
                   create_backup |-> RemovalFlags.create_backup,
                   validate_after |-> RemovalFlags.validate_after,
                   success |-> success, backup_file |-> backup_file])
           /\ genrePlaylists' = [genrePlaylists EXCEPT ![pid] = after]
           /\ reports' = IF success THEN reports
                         ELSE Append(reports, [pid |-> pid, backup |-> backup_file])
           /\ already_in_playlist' = IF success THEN Range(after) ELSE got
    /\ mpc' = "add"
    /\ UNCHANGED <<uri_to_genres, selected, genreIdx, masterRuns>>
    /\ UNCHANGED otherThanMaster

\* lines 610 and 637-645: add what is missing, next genre
GenreAdd ==
    /\ mpc = "add"
    /\ LET pid == selected[genreIdx]
           to_add_here == ToAdd(ShouldBeIn(uri_to_genres, pid), already_in_playlist)
       IN  genrePlaylists' = [genrePlaylists EXCEPT ![pid] = @ \o to_add_here]
    /\ genreIdx' = genreIdx + 1
    /\ mpc' = "loop"
    /\ UNCHANGED <<uri_to_genres, selected, already_in_playlist, removeCalls,
                   reports, masterRuns>>
    /\ UNCHANGED otherThanMaster

\* the loop over selected is exhausted
MasterDone ==
    /\ mpc = "loop"
    /\ genreIdx > Len(selected)
    /\ mpc' = "done"
    /\ UNCHANGED <<genrePlaylists, uri_to_genres, masterLocals, removeCalls,
                   reports, masterRuns>>
    /\ UNCHANGED otherThanMaster

MasterReturn ==
    /\ mpc = "done"
    /\ mpc' = "idle"
    /\ UNCHANGED <<genrePlaylists, uri_to_genres, masterLocals, removeCalls,
                   reports, masterRuns>>
    /\ UNCHANGED otherThanMaster

InitMaster ==
    /\ SyncInitial /\ UpdateInitial /\ LikedInitial /\ ApiInitial /\ TracksInitial /\ ArtistsInitial /\ MainInitial /\ MonthsInitial /\ WorkersInitial
    /\ PaginateInitial /\ ChunkInitial /\ ServerInitial
    /\ genrePlaylists \in [Genres -> StartContents]
    /\ uri_to_genres \in [{"u1", "u2"} -> SUBSET Genres]
    /\ mpc = "idle"
    /\ selected = <<>>
    /\ genreIdx = 0
    /\ already_in_playlist = {}
    /\ removeCalls = <<>>
    /\ reports = <<>>
    /\ masterRuns = 0

NextMaster ==
    \/ MasterStart
    \/ GenreKeepsAll
    \/ \E success \in BOOLEAN, kept \in SUBSET liked_uris : GenreRemove(success, kept)
    \/ GenreAdd
    \/ MasterDone
    \/ MasterReturn

SpecMaster == InitMaster /\ [][NextMaster]_vars

\* C26: every removal call of a run asks for a backup and for validation;
\* every removal that failed its validation has been reported together with
\* the backup made for it; and a playlist whose removal failed has no other
\* removal call in the run.
C26_RemovalBackedUpNotRetried ==
    /\ \A i \in 1..Len(removeCalls) :
           /\ removeCalls[i].create_backup
           /\ removeCalls[i].validate_after
           /\ ~removeCalls[i].success =>
                  /\ \E r \in 1..Len(reports) :
                         reports[r] = [pid |-> removeCalls[i].pid,
                                       backup |-> removeCalls[i].backup_file]
                  /\ \A j \in 1..Len(removeCalls) :
                         removeCalls[j].pid = removeCalls[i].pid => j = i

\* a run whose removal failed for the first genre went on to the second
\* genre, removed there too, and ended
C26_Witness ==
    /\ mpc = "done"
    /\ Len(removeCalls) = 2
    /\ ~removeCalls[1].success
    /\ Len(reports) >= 1

(***************************************************************************)
(* server.py: POST /sync starts a thread that runs scripts/sync.py as a    *)
(* child process and records its state in running_tasks.                   *)
(***************************************************************************)
MaxPosts == 2       \* POST /sync requests
MaxNow == 1         \* seconds the clock advances

\* f"sync_{datetime.now().strftime('%Y%m%d_%H%M%S')}"
TaskId(t) == <<"sync", t>>

\* running_tasks with the entry of task_id replaced
WithTask(tasks, task_id, rec) ==
    [k \in DOMAIN tasks \cup {task_id} |-> IF k = task_id THEN rec ELSE tasks[k]]

\* the child processes that are running a sync against the data directory
ActiveSyncs == {i \in 1..Len(threads) : threads[i].tpc = "running" /\ ~threads[i].skip_sync}

\* trigger_sync: the handler of POST /sync
TriggerSync(skip_sync) ==
    /\ Len(threads) < MaxPosts
    /\ threads' = Append(threads,
           [task_id |-> TaskId(clock), skip_sync |-> skip_sync, tpc |-> "started"])
    /\ UNCHANGED <<running_tasks, task_results, clock>>
    /\ UNCHANGED otherThanServer

\* run_sync_task up to the Popen call
RunSyncTaskStart(i) ==
    /\ threads[i].tpc = "started"
    /\ running_tasks' = WithTask(running_tasks, threads[i].task_id,
           [status |-> "running", started_at |-> clock, output |-> <<>>])
    /\ threads' = [threads EXCEPT ![i].tpc = "running"]
    /\ UNCHANGED <<task_results, clock>>
    /\ UNCHANGED otherThanServer

\* run_sync_task when Popen raises: the except branch
RunSyncTaskRaises(i) ==
    /\ threads[i].tpc = "started"
    /\ LET rec == [status |-> "error", started_at |-> clock, output |-> <<>>,
                   error |-> "e", completed_at |-> clock]
       IN  /\ running_tasks' = WithTask(running_tasks, threads[i].task_id, rec)
           /\ task_results' = WithTask(task_results, threads[i].task_id, rec)
    /\ threads' = [threads EXCEPT ![i].tpc = "finished"]
    /\ UNCHANGED clock
    /\ UNCHANGED otherThanServer

\* run_sync_task from the output loop to the end: the child exits
RunSyncTaskExit(i, return_code, output_lines) ==
    /\ threads[i].tpc = "running"
    /\ LET task_id == threads[i].task_id
           rec == [status |-> IF return_code = 0 THEN "completed" ELSE "failed",
                   started_at |-> running_tasks[task_id].started_at,
                   output |-> output_lines,
                   return_code |-> return_code, completed_at |-> clock]
       IN  /\ running_tasks' = WithTask(running_tasks, task_id, rec)
           /\ task_results' = WithTask(task_results, task_id, rec)
    /\ threads' = [threads EXCEPT ![i].tpc = "finished"]
    /\ UNCHANGED clock
    /\ UNCHANGED otherThanServer

\* a second passes
Tick ==
    /\ clock < MaxNow
    /\ clock' = clock + 1
    /\ UNCHANGED <<running_tasks, task_results, threads>>
    /\ UNCHANGED otherThanServer

InitServer ==
    /\ SyncInitial /\ UpdateInitial /\ LikedInitial /\ ApiInitial /\ TracksInitial /\ ArtistsInitial /\ MainInitial /\ MonthsInitial /\ WorkersInitial
    /\ PaginateInitial /\ ChunkInitial /\ MasterInitial
    /\ ServerInitial

NextServer ==
    \/ \E skip_sync \in BOOLEAN : TriggerSync(skip_sync)
    \/ \E i \in 1..Len(threads) : RunSyncTaskStart(i)
    \/ \E i \in 1..Len(threads) : RunSyncTaskRaises(i)
    \/ \E i \in 1..Len(threads), return_code \in {0, 1},
          output_lines \in {<<>>, <<"line">>} :
           RunSyncTaskExit(i, return_code, output_lines)
    \/ Tick

SpecServer == InitServer /\ [][NextServer]_vars

\* C27: at no time are two sync runs active against the local store,
\* the runs started through POST /sync included.
C27_AtMostOneActiveSync == Cardinality(ActiveSyncs) <= 1

(***************************************************************************)
(* More claims about Spotim8.sync (checked under SpecSync).                *)
(***************************************************************************)
\* the changed list of a non-forced sync that would start now with this scope
ChangedNext(inclLiked, ownedOnly) ==
    ChangedList(meta.playlist_snapshots,
                SnapshotsOf(ScopedListing(inclLiked, ownedOnly)),
                ScopedListing(inclLiked, ownedOnly), FALSE)

\* a regular collection of this run's listing that was edited since the listing
EditedSinceListing(c) ==
    /\ c \in RegularIds /\ c \in DOMAIN new_snapshots
    /\ new_snapshots[c] # Token(c)

\* a step that requests the items of a collection
FetchStep == fetchCalls' # fetchCalls /\ fetchCalls' # <<>>

StoredRowsCurrentOrChangedNext ==
    pc = "done" =>
        \A c \in RegularIds :
            EditedSinceListing(c) =>
                \/ RowsOf(pt, c) = PlaylistRows(c, rItems[c])
                \/ \A inclLiked \in BOOLEAN, ownedOnly \in BOOLEAN :
                       c \in Range(ScopedListing(inclLiked, ownedOnly)) =>
                           c \in Range(ChangedNext(inclLiked, ownedOnly))

\* C28: every item fetch of a sync comes after the listing, whose tokens stay
\* as read; and when a sync has committed, every regular collection edited
\* since the listing either has its current contents stored or is in the
\* changed list of a non-forced sync that lists it.
C28_TokenNotNewerThanRows ==
    /\ [][FetchStep => pc # "idle" /\ new_snapshots' = new_snapshots]_vars
    /\ []StoredRowsCurrentOrChangedNext

\* a committed sync whose collection A was edited after its rows were
\* fetched: the stored rows are behind, the committed token is the old one
C28_Witness ==
    /\ pc = "done"
    /\ "A" \in Range(fetchCalls)
    /\ EditedSinceListing("A")
    /\ RowsOf(pt, "A") # PlaylistRows("A", rItems["A"])
    /\ meta.playlist_snapshots["A"] # Token("A")

\* C29: after a successful sync every row of playlist_tracks belongs to a
\* collection that is a key of the committed version map.
C29_RowsOnlyOfCommittedKeys ==
    pc = "done" =>
        \A i \in 1..Len(pt.rows) :
            pt.rows[i].playlist_id \in DOMAIN meta.playlist_snapshots

\* C30: a non-forced sync that includes Liked Songs, after a sync that
\* committed a token for it, has Liked Songs in its changed list whenever the
\* remote Liked Songs differ from the rows stored for it.
C30_LikedChangeDetected ==
    ( /\ pc \in {"liked", "playlists", "commit", "done"}
      /\ ~force /\ include_liked_songs
      /\ LIKED_SONGS_PLAYLIST_ID \in DOMAIN oldSnapshots
      /\ LIKED_SONGS_PLAYLIST_ID \notin Range(fetchCalls)
      /\ RowsOf(ptAtStart, LIKED_SONGS_PLAYLIST_ID)
             # LikedRows(rItems[LIKED_SONGS_PLAYLIST_ID]) )
        => LIKED_SONGS_PLAYLIST_ID \in Range(changed)

(***************************************************************************)
(* The per-run cache of playlist contents after the script's own adds      *)
(* (checked under SpecUpdate).                                             *)
(***************************************************************************)
\* what get_playlist_tracks(p) without force_refresh would return now
CachedRead(p) == GetPlaylistTracks(playlist_tracks_cache, remote, p, "monthly", FALSE)

\* C31: once a call of the script has added tracks to an existing playlist
\* and has completed, a get_playlist_tracks of that playlist without
\* force_refresh returns a set that contains the added tracks, both right
\* after the call's last step and after the call has returned.
C31_CachedReadSeesAdds ==
    /\ (upc = "done" /\ UsesCache(ukind)) =>
           Range(added) \subseteq CachedRead(upid)
    /\ (upc = "idle" /\ prev.status = "done" /\ UsesCache(prev.kind)) =>
           Range(prev.added) \subseteq CachedRead(prev.pid)

(***************************************************************************)
(* Spotim8.tracks: the tracks table is rebuilt from the track ids of       *)
(* playlist_tracks; sync deletes it when collections changed; the genre    *)
(* inference of the automation script fills its genres column.             *)
(***************************************************************************)
MaxTrackOps == 4     \* operations on the tracks table per behaviour

TrackIds == {"t1", "t2", "t3"}
\* a stored genres value: None, or a list of genres
StoredGenres == {"rock", "pop"}

\* the table as the rebuild finds it, for the history variable
ColumnBefore == IF tracksTable.exists THEN tracksTable.genres ELSE genresBefore

\* existing_genres = existing_df.set_index("track_id")["genres"].to_dict(),
\* or {} when catalog.load returns None
ExistingGenres(tbl) == IF tbl.exists THEN tbl.genres ELSE <<>>
\* rows of the rebuilt table: "genres": existing_genres.get(track_id, None)
RebuiltGenres(existing_genres, ids) ==
    [t \in ids |-> IF t \in DOMAIN existing_genres THEN existing_genres[t]
                   ELSE "None"]

\* sync, lines 214-228: rows of changed collections were fetched (ids: the
\* track ids of the table now) and the derived tables are deleted
SyncInvalidatesTracks(ids) ==
    /\ trOps < MaxTrackOps
    /\ library' = ids
    /\ tracksTable' = NoTracks
    /\ genresBefore' = ColumnBefore
    /\ trLast' = "sync"
    /\ trOps' = trOps + 1
    /\ UNCHANGED otherThanTracks

\* tracks(force): the stored table when there is one and force is off;
\* otherwise the rebuild (playlist_tracks(force=True) fetches the ids anew)
TracksTable(force_, ids) ==
    /\ trOps < MaxTrackOps
    /\ trOps' = trOps + 1
    /\ IF ~force_ /\ tracksTable.exists
       THEN /\ trLast' = "loaded"
            /\ UNCHANGED <<library, tracksTable, genresBefore>>
       ELSE /\ library' = (IF force_ THEN ids ELSE library)
            /\ tracksTable' =
                   [exists |-> TRUE,
                    genres |-> RebuiltGenres(ExistingGenres(tracksTable), library')]
            /\ genresBefore' = ColumnBefore
            /\ trLast' = "rebuilt"
    /\ UNCHANGED otherThanTracks

\* compute_track_genres_incremental: tracks.at[idx, "genres"] = genres and
\* the table is written back
StoreGenres(t, g) ==
    /\ trOps < MaxTrackOps
    /\ tracksTable.exists
    /\ t \in DOMAIN tracksTable.genres
    /\ tracksTable' = [tracksTable EXCEPT !.genres[t] = g]
    /\ trLast' = "genres"
    /\ trOps' = trOps + 1
    /\ UNCHANGED <<library, genresBefore>>
    /\ UNCHANGED otherThanTracks

InitTracks == SyncInitial /\ UpdateInitial /\ LikedInitial /\ ApiInitial /\ PaginateInitial /\ ChunkInitial /\ MasterInitial /\ ServerInitial /\ TracksInitial /\ ArtistsInitial /\ MainInitial /\ MonthsInitial /\ WorkersInitial

NextTracks ==
    \/ \E ids \in SUBSET TrackIds : SyncInvalidatesTracks(ids)
    \/ \E force_ \in BOOLEAN, ids \in SUBSET TrackIds : TracksTable(force_, ids)
    \/ \E t \in TrackIds, g \in StoredGenres : StoreGenres(t, g)

SpecTracks == InitTracks /\ [][NextTracks]_vars

\* C32: after a rebuild of the tracks table, every track that was in the
\* table as it last existed before the rebuild and is in the rebuilt table
\* has the genres value it had there; this covers the forced rebuild and
\* the rebuild by the first tracks() call after a sync deleted the table.
C32_RebuildKeepsGenres ==
    trLast = "rebuilt" =>
        \A t \in DOMAIN genresBefore \cap DOMAIN tracksTable.genres :
            tracksTable.genres[t] = genresBefore[t]

(***************************************************************************)
(* sync_artists of scripts/spotify_sync.py: the artists of the given       *)
(* tracks, their genres from sp.artists, the checkpoint file of processed  *)
(* artist ids, and the save into artists.parquet.                          *)
(***************************************************************************)
MaxArtistRuns == 2      \* sync_artists calls per behaviour
ArtistChunkSize == 1    \* _chunked(artist_ids, 50), scaled

ArtistOrder == <<"a1", "a2", "a3">>
\* the remote service: the artists of each track, the genres of each artist
ArtistsOfTrack(t) ==
    IF t = "t1" THEN {"a1", "a2"} ELSE IF t = "t2" THEN {"a2", "a3"} ELSE {"a3"}
RemoteGenres(a) == IF a = "a1" THEN "rock" ELSE IF a = "a2" THEN "pop" ELSE "none"
\* the artists sp.tracks returns for track_ids
ReturnedArtists(track_ids) == UNION {ArtistsOfTrack(t) : t \in track_ids}

\* all_artists after the sp.tracks loop: {"artist_id", "name"}, no genres key
WithoutGenres(aids) == [a \in aids |-> "missing"]
\* artist_ids = [aid for aid in all_artists.keys() if aid not in processed_artists]
ArtistIdsToFetch(aids, processed_artists) ==
    SelectSeq(ArtistOrder, LAMBDA a : a \in aids /\ a \notin processed_artists)

\* the call starts: the checkpoint is read, sp.tracks gives the artists
SyncArtistsStart(track_ids) ==
    /\ arpc = "idle"
    /\ artistRuns < MaxArtistRuns
    /\ track_ids # {}
    /\ all_artists' = WithoutGenres(ReturnedArtists(track_ids))
    /\ artist_ids' = ArtistIdsToFetch(ReturnedArtists(track_ids), artist_checkpoint)
    /\ arpc' = "artists"
    /\ artistRuns' = artistRuns + 1
    /\ UNCHANGED <<artist_checkpoint, artists_parquet>>
    /\ UNCHANGED otherThanArtists

\* one chunk of sp.artists: the genres are stored in all_artists and each
\* id is appended to the checkpoint file
FetchArtists ==
    /\ arpc = "artists"
    /\ artist_ids # <<>>
    /\ LET chunk == Range(FirstChunk(artist_ids, ArtistChunkSize))
       IN  /\ all_artists' = [a \in DOMAIN all_artists |->
                                 IF a \in chunk THEN RemoteGenres(a)
                                 ELSE all_artists[a]]
           /\ artist_checkpoint' = artist_checkpoint \cup chunk
    /\ artist_ids' = AfterFirstChunk(artist_ids, ArtistChunkSize)
    /\ UNCHANGED <<artists_parquet, arpc, artistRuns>>
    /\ UNCHANGED otherThanArtists

\* api_call(sp.artists, chunk) raises, or the process is stopped: the run
\* ends without a save, the checkpoint file stays
FetchArtistsRaises ==
    /\ arpc = "artists"
    /\ artist_ids # <<>>
    /\ arpc' = "idle"
    /\ all_artists' = <<>>
    /\ artist_ids' = <<>>
    /\ UNCHANGED <<artist_checkpoint, artists_parquet, artistRuns>>
    /\ UNCHANGED otherThanArtists

\* artists_df.to_parquet: the run has completed
SaveArtists ==
    /\ arpc = "artists"
    /\ artist_ids = <<>>
    /\ artists_parquet' = [exists |-> TRUE, rows |-> all_artists]
    /\ arpc' = "saved"
    /\ UNCHANGED <<artist_checkpoint, all_artists, artist_ids, artistRuns>>
    /\ UNCHANGED otherThanArtists

\* sync_artists returns
SyncArtistsReturn ==
    /\ arpc = "saved"
    /\ arpc' = "idle"
    /\ all_artists' = <<>>
    /\ UNCHANGED <<artist_checkpoint, artists_parquet, artist_ids, artistRuns>>
    /\ UNCHANGED otherThanArtists

InitArtists == SyncInitial /\ UpdateInitial /\ LikedInitial /\ ApiInitial /\ PaginateInitial /\ ChunkInitial /\ MasterInitial /\ ServerInitial /\ TracksInitial /\ ArtistsInitial /\ MainInitial /\ MonthsInitial /\ WorkersInitial

NextArtists ==
    \/ \E track_ids \in SUBSET TrackIds : SyncArtistsStart(track_ids)
    \/ FetchArtists
    \/ FetchArtistsRaises
    \/ SaveArtists
    \/ SyncArtistsReturn

SpecArtists == InitArtists /\ [][NextArtists]_vars

\* C33: when a sync_artists run has saved artists.parquet, the table has a
\* genres value for every artist the remote service returned for the given
\* tracks, whatever the checkpoint file held when the run started.
C33_EveryArtistHasGenres ==
    arpc = "saved" =>
        \A a \in DOMAIN artists_parquet.rows : artists_parquet.rows[a] # "missing"

(***************************************************************************)
(* The removal set of the master-genre reconciliation (checked under       *)
(* SpecMaster).                                                            *)
(***************************************************************************)
\* C34: every removal the master-genre reconciliation requests names only
\* tracks that are in the playlist when it is requested, are liked songs
\* and are not in the desired list of that genre; a track that is not a
\* liked song is in no removal set.
C34_RemovesOnlyLikedMismatches ==
    [][Len(removeCalls') > Len(removeCalls) =>
          LET call == removeCalls'[Len(removeCalls')]
          IN  /\ call.tracks \subseteq Range(genrePlaylists[call.pid])
              /\ call.tracks \subseteq Range(LikedList)
              /\ call.tracks \cap Range(ShouldBeIn(uri_to_genres, call.pid)) = {}
              /\ "u3" \notin call.tracks]_vars

\* a removal was requested for a playlist that also holds the track u3,
\* which is not a liked song: u3 is not in the set and stays in the playlist
C34_Witness ==
    /\ mpc = "add"
    /\ removeCalls # <<>>
    /\ LET call == removeCalls[Len(removeCalls)]
       IN  /\ call.success
           /\ call.tracks = {"u1"}
           /\ genrePlaylists[call.pid] = <<"u3">>

(***************************************************************************)
(* main of scripts/automation/sync.py: authentication, the library sync    *)
(* phase, the playlist update phase, the notification and the exit status. *)
(***************************************************************************)
ArgSets == [skip_sync : BOOLEAN, sync_only : BOOLEAN, force : BOOLEAN]
\* the timed steps of the playlist update phase, in order
UpdateSteps == <<"rename", "fix_yearly", "consolidate", "delete_old",
                 "monthly", "genre_split", "master">>
\* what a failing remote call raises
RemoteErrors == {"SpotifyException", "RuntimeError"}

\* sync_full_library: "return True" at the end of the try block, and
\* "except Exception as e: ... return False" around the whole body
SyncFullLibraryResult(raised) == IF raised = "None" THEN "True" ELSE "False"

\* main is entered: arguments parsed, success = False, error = None
MainStart(a) ==
    /\ mainpc = "idle"
    /\ exit_status = "running"
    /\ args' = a
    /\ mainpc' = "auth"
    /\ UNCHANGED <<sync_success, summary, stepIdx, mainSuccess, mainError, emails,
                   exit_status>>
    /\ UNCHANGED otherThanMain

\* get_spotify_client / get_user_info; on an error the notification is
\* sent and the process exits with status 1
Authenticate(raised) ==
    /\ mainpc = "auth"
    /\ IF raised = "None"
       THEN /\ mainpc' = IF args.skip_sync
                         THEN (IF args.sync_only THEN "complete" ELSE "update")
                         ELSE "sync"
            /\ stepIdx' = IF args.skip_sync /\ ~args.sync_only THEN 1 ELSE stepIdx
            /\ UNCHANGED <<mainError, emails, exit_status>>
       ELSE /\ mainError' = raised
            /\ emails' = Append(emails, FALSE)
            /\ exit_status' = 1
            /\ mainpc' = "exited"
            /\ UNCHANGED stepIdx
    /\ UNCHANGED <<args, sync_success, summary, mainSuccess>>
    /\ UNCHANGED otherThanMain

\* the data sync phase: sync_success = sync_full_library(force=args.force),
\* where raised is what Spotim8.sync (or any later part) raised inside it
SyncPhase(raised) ==
    /\ mainpc = "sync"
    /\ LET result == SyncFullLibraryResult(raised)
       IN  /\ sync_success' = result
           /\ summary' = (IF result = "True" THEN "Yes" ELSE "No")
    /\ mainpc' = IF args.sync_only THEN "complete" ELSE "update"
    /\ stepIdx' = IF args.sync_only THEN stepIdx ELSE 1
    /\ UNCHANGED <<args, mainSuccess, mainError, emails, exit_status>>
    /\ UNCHANGED otherThanMain

\* one step of the playlist update phase; an exception leaves the try block
UpdateStep(raised) ==
    /\ mainpc = "update"
    /\ IF raised = "None"
       THEN /\ stepIdx' = stepIdx + 1
            /\ mainpc' = IF stepIdx = Len(UpdateSteps) THEN "complete" ELSE "update"
            /\ UNCHANGED <<mainSuccess, mainError>>
       ELSE /\ mainError' = raised
            /\ mainSuccess' = FALSE
            /\ mainpc' = "finally"
            /\ UNCHANGED stepIdx
    /\ UNCHANGED <<args, sync_success, summary, emails, exit_status>>
    /\ UNCHANGED otherThanMain

\* the end of the try block: "Complete!", success = True
Complete ==
    /\ mainpc = "complete"
    /\ mainSuccess' = TRUE
    /\ mainpc' = "finally"
    /\ UNCHANGED <<args, sync_success, summary, stepIdx, mainError, emails,
                   exit_status>>
    /\ UNCHANGED otherThanMain

\* finally: the notification, and sys.exit(1) when success is False
Finally ==
    /\ mainpc = "finally"
    /\ emails' = Append(emails, mainSuccess)
    /\ exit_status' = IF mainSuccess THEN 0 ELSE 1
    /\ mainpc' = "exited"
    /\ UNCHANGED <<args, sync_success, summary, stepIdx, mainSuccess, mainError>>
    /\ UNCHANGED otherThanMain

InitMain == SyncInitial /\ UpdateInitial /\ LikedInitial /\ ApiInitial /\ PaginateInitial /\ ChunkInitial /\ MasterInitial /\ ServerInitial /\ TracksInitial /\ ArtistsInitial /\ MainInitial /\ MonthsInitial /\ WorkersInitial

NextMain ==
    \/ \E a \in ArgSets : MainStart(a)
    \/ \E raised \in RemoteErrors \cup {"None"} : Authenticate(raised)
    \/ \E raised \in RemoteErrors \cup {"None"} : SyncPhase(raised)
    \/ \E raised \in RemoteErrors \cup {"None"} : UpdateStep(raised)
    \/ Complete
    \/ Finally

SpecMain == InitMain /\ [][NextMain]_vars

\* C35: when the library sync phase of a run has failed with a remote
\* error (sync_full_library did not return True), the process does not end
\* with exit status 0.
C35_SyncFailureFailsRun ==
    (mainpc = "exited" /\ sync_success = "False") => exit_status # 0

(***************************************************************************)
(* update_monthly_playlists: which months get a monthly playlist.          *)
(***************************************************************************)
LastMonth == 3      \* months are numbered 1..LastMonth, oldest first
MaxKeep == 3        \* largest keep_last_n_months argument

\* the month strings "YYYY-MM" by their rank; sorting the strings sorts them
\* by time
MonthNumbers == 1..LastMonth

RECURSIVE SortedMonths(_)
\* sorted(all_months)
SortedMonths(S) ==
    IF S = {} THEN <<>>
    ELSE LET least == CHOOSE x \in S : \A y \in S : x <= y
         IN  <<least>> \o SortedMonths(S \ {least})

\* the start index of the slice seq[start:] for a start that is not positive
SliceStart(len, start) ==
    IF start = 0 THEN 0
    ELSE IF len + start < 0 THEN 0 ELSE len + start
\* sorted_months[-keep_last_n_months:]
LastN(seq, n) == SubSeq(seq, SliceStart(Len(seq), 0 - n) + 1, Len(seq))

\* the n most recent months of a set
MostRecent(S, n) == {m \in S : Cardinality({k \in S : k > m}) < n}

\* lines 157-173: all_months, sorted_months, recent_months; nothing to do
\* when recent_months is empty
SelectMonths ==
    /\ mopc = "idle"
    /\ LET all_months == finds_months \cup history_months
           recent == IF all_months # {}
                     THEN LastN(SortedMonths(all_months), keep_last_n_months)
                     ELSE <<>>
       IN  /\ recent_months' = recent
           /\ monthQueue' = recent
           /\ mopc' = IF recent = <<>> THEN "done" ELSE "loop"
    /\ UNCHANGED <<finds_months, history_months, keep_last_n_months,
                   month_to_tracks, monthlyWritten>>
    /\ UNCHANGED otherThanMonths

\* one iteration of "for month in sorted(recent_months)": a month without
\* liked songs is skipped, the playlist of the others is created or updated
ProcessMonth ==
    /\ mopc = "loop"
    /\ monthQueue # <<>>
    /\ month_to_tracks' = month_to_tracks \cup {Head(monthQueue)}
    /\ monthlyWritten' = IF Head(monthQueue) \in finds_months
                         THEN monthlyWritten \cup {Head(monthQueue)}
                         ELSE monthlyWritten
    /\ monthQueue' = Tail(monthQueue)
    /\ UNCHANGED <<finds_months, history_months, keep_last_n_months,
                   recent_months, mopc>>
    /\ UNCHANGED otherThanMonths

\* the loop is over: return month_to_tracks
MonthsReturn ==
    /\ mopc = "loop"
    /\ monthQueue = <<>>
    /\ mopc' = "done"
    /\ UNCHANGED <<finds_months, history_months, keep_last_n_months,
                   recent_months, monthQueue, month_to_tracks, monthlyWritten>>
    /\ UNCHANGED otherThanMonths

InitMonths ==
    /\ SyncInitial /\ UpdateInitial /\ LikedInitial /\ ApiInitial /\ WorkersInitial
    /\ PaginateInitial /\ ChunkInitial /\ MasterInitial /\ ServerInitial
    /\ TracksInitial /\ ArtistsInitial /\ MainInitial
    /\ finds_months \in SUBSET MonthNumbers
    /\ history_months \in SUBSET MonthNumbers
    /\ keep_last_n_months \in 0..MaxKeep
    /\ recent_months = <<>>
    /\ monthQueue = <<>>
    /\ month_to_tracks = {}
    /\ monthlyWritten = {}
    /\ mopc = "idle"

NextMonths ==
    \/ SelectMonths
    \/ ProcessMonth
    \/ MonthsReturn

SpecMonths == InitMonths /\ [][NextMonths]_vars

\* C36: for every keep_last_n_months >= 0, the months whose monthly
\* playlist update_monthly_playlists creates or updates are at most
\* keep_last_n_months many and are among the keep_last_n_months most recent
\* months of the data.
C36_AtMostNMostRecent ==
    /\ Cardinality(monthlyWritten) <= keep_last_n_months
    /\ monthlyWritten \subseteq
           MostRecent(finds_months \cup history_months, keep_last_n_months)

(***************************************************************************)
(* compute_track_genres_incremental: the thread pool that infers the       *)
(* genres of the tracks, and the main thread that collects the results.    *)
(***************************************************************************)
NumWorkers == 2      \* max_workers of the ThreadPoolExecutor

\* infer_genres_comprehensive over the loaded tables: a pure function of
\* the track; sorted(list(all_genres))
InferGenres(t) ==
    IF t = "t1" THEN <<"HipHop">>
    ELSE IF t = "t2" THEN <<"Dance", "HipHop">>
    ELSE <<"Other">>

NoResult == [track_id |-> "", genres |-> <<>>]
\* a faulty ProcessTrack: a failed inference is reported without its id
ProcessTrackLosesId(t, failing) ==
    IF t \in failing THEN NoResult
    ELSE [track_id |-> t, genres |-> InferGenres(t)]
\* _process_track: (track_id, genres), or (track_id, []) when the inference
\* raised
ProcessTrack(t, failing) ==
    [track_id |-> t, genres |-> IF t \in failing THEN <<>> ELSE InferGenres(t)]

\* the sequential branch: inferred_genres_map[track_id] = genres, or [] in
\* the except clause
SequentialMap(ids, failing) ==
    [t \in ids |-> IF t \in failing THEN <<>> ELSE InferGenres(t)]

\* m[k] = v of a dict
Assigned(map, k, v) ==
    [x \in DOMAIN map \cup {k} |-> IF x = k THEN v ELSE map[x]]

Running == {t \in DOMAIN futures : futures[t].state = "running"}

\* executor.submit for every entry of track_data_list
SubmitAll(ids, failing) ==
    /\ wpc = "idle"
    /\ inferred_genres_map = <<>>
    /\ ids # {}
    /\ failing \subseteq ids
    /\ submittedIds' = ids
    /\ failingIds' = failing
    /\ futures' = [t \in ids |-> [state |-> "pending", result |-> NoResult]]
    /\ wpc' = "pool"
    /\ UNCHANGED <<collected, inferred_genres_map>>
    /\ UNCHANGED otherThanWorkers

\* a free worker thread takes a pending task
WorkerTakes(t) ==
    /\ wpc = "pool"
    /\ t \in DOMAIN futures
    /\ futures[t].state = "pending"
    /\ Cardinality(Running) < NumWorkers
    /\ futures' = [futures EXCEPT ![t].state = "running"]
    /\ UNCHANGED <<wpc, submittedIds, failingIds, collected, inferred_genres_map>>
    /\ UNCHANGED otherThanWorkers

\* the worker returns from _process_track: the future holds its result
WorkerReturns(t) ==
    /\ wpc = "pool"
    /\ t \in DOMAIN futures
    /\ futures[t].state = "running"
    /\ futures' = [futures EXCEPT ![t] = [state |-> "finished",
                                          result |-> ProcessTrack(t, failingIds)]]
    /\ UNCHANGED <<wpc, submittedIds, failingIds, collected, inferred_genres_map>>
    /\ UNCHANGED otherThanWorkers

\* the main thread: as_completed yields a finished future,
\* inferred_genres_map[track_id] = genres
CollectResult(t) ==
    /\ wpc = "pool"
    /\ t \in DOMAIN futures
    /\ futures[t].state = "finished"
    /\ t \notin Range(collected)
    /\ collected' = Append(collected, t)
    /\ inferred_genres_map' =
           Assigned(inferred_genres_map, futures[t].result.track_id,
                    futures[t].result.genres)
    /\ UNCHANGED <<wpc, submittedIds, failingIds, futures>>
    /\ UNCHANGED otherThanWorkers

\* as_completed is exhausted and the executor is shut down
PoolDone ==
    /\ wpc = "pool"
    /\ Range(collected) = DOMAIN futures
    /\ wpc' = "done"
    /\ UNCHANGED <<submittedIds, failingIds, futures, collected,
                   inferred_genres_map>>
    /\ UNCHANGED otherThanWorkers

InitWorkers ==
    /\ SyncInitial /\ UpdateInitial /\ LikedInitial /\ ApiInitial
    /\ PaginateInitial /\ ChunkInitial /\ MasterInitial /\ ServerInitial
    /\ TracksInitial /\ ArtistsInitial /\ MainInitial /\ MonthsInitial
    /\ WorkersInitial

NextWorkers ==
    \/ \E ids \in SUBSET TrackIds, failing \in SUBSET TrackIds :
           SubmitAll(ids, failing)
    \/ \E t \in TrackIds : WorkerTakes(t)
    \/ \E t \in TrackIds : WorkerReturns(t)
    \/ \E t \in TrackIds : CollectResult(t)
    \/ PoolDone

SpecWorkers == InitWorkers /\ [][NextWorkers]_vars

\* a step of a worker thread: only futures change while the pool is open
WorkerStep == wpc = "pool" /\ futures' # futures

\* C37: whatever the order in which the workers run and finish, when the
\* pool is done the result map has exactly one entry per submitted track
\* id and equals the map sequential processing builds (the empty list for
\* a track whose inference fails); and a worker step changes nothing but
\* its own future: not the result map, no remote call, no other state.
C37_ParallelEqualsSequential ==
    /\ [](wpc = "done" =>
             /\ DOMAIN inferred_genres_map = submittedIds
             /\ inferred_genres_map = SequentialMap(submittedIds, failingIds))
    /\ [][WorkerStep =>
             UNCHANGED <<inferred_genres_map, collected, submittedIds,
                         failingIds, otherThanWorkers>>]_vars

\* three tracks, the inference of t2 fails, and the results were collected
\* in an order that is not the order of submission
C37_Witness ==
    /\ wpc = "done"
    /\ submittedIds = {"t1", "t2", "t3"}
    /\ failingIds = {"t2"}
    /\ collected = <<"t3", "t2", "t1">>
    /\ inferred_genres_map["t2"] = <<>>
    /\ inferred_genres_map["t3"] = <<"Other">>
====
